---- MODULE Spec2Model ----
(***************************************************************************)
(* Decision engine of the deck-building agent (app/routers/game.py): the   *)
(* per-match turn-state store, the action selector, the buy pipeline and   *)
(* the ACTION -> BUY orchestrator of /play; the process-wide default       *)
(* strategy of app/main.py; the selectors, the buy pipeline and the        *)
(* strategy registry of app/strategy.                                      *)
(*                                                                         *)
(* Python dicts are functions whose DOMAIN is the set of keys present.     *)
(* A decision string is the sequence of its space-separated tokens:        *)
(* "BUY gold" is <<"BUY", "gold">>, "END_TURN" is <<"END_TURN">>; Python's  *)
(* None is the empty sequence (both are falsy).  A player name is the      *)
(* sequence of its tokens.  An exception escaping a handler is the         *)
(* decision <<"ERROR">> (the HTTP layer answers 500).                      *)
(***************************************************************************)
EXTENDS Integers, Sequences, FiniteSets, TLC

VARIABLES TURN_STATE, DEFAULT_STRATEGY, last, hist

vars == <<TURN_STATE, DEFAULT_STRATEGY, last, hist>>

-----------------------------------------------------------------------------
(* Bounds of the model *)

MaxTurn == 2
MaxActionsLeft == 2
MaxActionCoins == 1
MaxExtraBuys == 1
MaxBought == 3

-----------------------------------------------------------------------------
(* Python dict and list idioms *)

EmptyDict == [k \in {} |-> 0]

DictGet(d, k, default) == IF k \in DOMAIN d THEN d[k] ELSE default

DictPut(d, k, v) == (k :> v) @@ d

DictSetDefault(d, k, v) == d @@ (k :> v)

DictPop(d, k) == [j \in DOMAIN d \ {k} |-> d[j]]

None == <<>>

Max2(a, b) == IF a >= b THEN a ELSE b

RECURSIVE SumOver(_, _)
SumOver(d, keys) ==
    IF keys = {} THEN 0
    ELSE LET k == CHOOSE x \in keys : TRUE
         IN  d[k] + SumOver(d, keys \ {k})

\* first element of the list `order` satisfying P, as a one-element or empty list
RECURSIVE FirstIn(_, _)
FirstIn(order, ok) ==
    IF order = <<>> THEN <<>>
    ELSE IF Head(order) \in ok THEN <<Head(order)>>
    ELSE FirstIn(Tail(order), ok)

-----------------------------------------------------------------------------
(* Constants of app/routers/game.py *)

TEAM_NAME == "Equipe3MaGueule"

BUY_PROVINCE_COINS == 8
BUY_GOLD_COINS == 6
BUY_5_COST_COINS == 5
BUY_4_COST_COINS == 4
BUY_SILVER_COINS == 3
ENDGAME_PROVINCE_THRESHOLD == 2
MIDGAME_PROVINCE_THRESHOLD == 4
RUSH_TURN == 145
MIN_GREEN_TURN == 14
PROVINCE_SOFT_CAP_BEFORE_TURN == 20
PROVINCES_ALLOWED_BEFORE_CAP == 2
MAX_LABS == 3
ENGINE_GOLD_THRESHOLD == 2
ENGINE_LAB_THRESHOLD == 2
ENGINE_MF_SUM_THRESHOLD == 2
MIN_COPPER_TRASH == 2
OPENING_TURN_LIMIT == 3
COINS_EQ_3 == 3
COINS_EQ_4 == 4
COINS_EQ_5 == 5
BEHIND_DUCHY_DEFICIT == 6
EARLY_PROVINCE_STOCK == 6
GARDENS_EARLY_STOCK == 8

TERMINAL_ACTIONS == {"smithy", "woodcutter"}

COSTS ==
    [province |-> 8, duchy |-> 5, estate |-> 2, gold |-> 6, silver |-> 3,
     copper |-> 0, laboratory |-> 5, market |-> 5, festival |-> 5,
     village |-> 3, smithy |-> 4, woodcutter |-> 3, port |-> 4, poacher |-> 4,
     cellar |-> 2, farmingvillage |-> 4, gardens |-> 4, chapel |-> 2,
     moneylender |-> 4, remodel |-> 4, remake |-> 4, workshop |-> 3,
     feast |-> 4, mine |-> 5, witch |-> 5, militia |-> 4, bandit |-> 5,
     bureaucrat |-> 4, councilroom |-> 5, library |-> 5, adventurer |-> 6,
     magpie |-> 4, hireling |-> 6, distantshore |-> 6, marquis |-> 6]

ACTION_COIN_BONUS ==
    [market |-> 1, festival |-> 2, woodcutter |-> 2, moneylender |-> 3,
     chancellor |-> 2, poacher |-> 1, farmingvillage |-> 2]

ACTION_PLUS_ACTIONS ==
    [village |-> 2, market |-> 1, laboratory |-> 1, festival |-> 2, port |-> 2,
     cellar |-> 1, farmingvillage |-> 2, distantshore |-> 1, magpie |-> 1,
     poacher |-> 1]

ACTION_BUY_BONUS ==
    [market |-> 1, woodcutter |-> 1, festival |-> 1, councilroom |-> 1]

-----------------------------------------------------------------------------
(* Snapshot accessors.  A snapshot is [players |-> <<player, ...>>,        *)
(* stock |-> quantities]; a player is [name, hand, score] with             *)
(* hand = [present |-> BOOLEAN, quantities |-> dict].  me_idx is the       *)
(* 0-based Python index, so players[me_idx] is game.players[me_idx + 1].   *)

Player(game, me_idx) == game.players[me_idx + 1]

HandQuantities(game, me_idx) ==
    LET me == Player(game, me_idx)
    IN  IF me.hand.present THEN me.hand.quantities ELSE EmptyDict

_in_stock(game, card) == DictGet(game.stock, card, 0) > 0

_score_status(game, me_idx) ==
    LET my_score == Player(game, me_idx).score
        opp == {game.players[i].score : i \in (1..Len(game.players)) \ {me_idx + 1}}
        best == IF opp = {} THEN 0 ELSE CHOOSE s \in opp : \A t \in opp : s >= t
    IN  <<my_score, best>>

_score_gap(game, me_idx) ==
    LET st == _score_status(game, me_idx) IN st[1] - st[2]

_terminal_capacity(state_counts) ==
    LET terminals == SumOver([t \in TERMINAL_ACTIONS |-> DictGet(state_counts, t, 0)],
                             TERMINAL_ACTIONS)
        plus_actions == DictGet(state_counts, "village", 0) * 2
                        + DictGet(state_counts, "market", 0) * 1
                        + DictGet(state_counts, "festival", 0) * 2
                        + DictGet(state_counts, "laboratory", 0) * 1
    IN  1 + plus_actions - terminals

_compute_treasure_coins(game, me_idx) ==
    LET q == HandQuantities(game, me_idx)
    IN  DictGet(q, "copper", 0) * 1 + DictGet(q, "silver", 0) * 2
        + DictGet(q, "gold", 0) * 3

_engine_ready(counts) ==
    \/ DictGet(counts, "gold", 0) >= ENGINE_GOLD_THRESHOLD
    \/ DictGet(counts, "laboratory", 0) >= ENGINE_LAB_THRESHOLD
    \/ DictGet(counts, "market", 0) + DictGet(counts, "festival", 0)
           >= ENGINE_MF_SUM_THRESHOLD
    \/ /\ DictGet(counts, "village", 0) >= 1
       /\ DictGet(counts, "smithy", 0) + DictGet(counts, "councilroom", 0)
              + DictGet(counts, "library", 0) >= 1

_early_province_ok(counts, provinces_left, turn, score_gap) ==
    IF turn >= RUSH_TURN THEN TRUE
    ELSE IF provinces_left <= EARLY_PROVINCE_STOCK THEN TRUE
    ELSE IF _engine_ready(counts) THEN TRUE
    ELSE IF turn < MIN_GREEN_TURN /\ score_gap > -BEHIND_DUCHY_DEFICIT THEN FALSE
    ELSE IF /\ turn < PROVINCE_SOFT_CAP_BEFORE_TURN
            /\ DictGet(counts, "province", 0) >= PROVINCES_ALLOWED_BEFORE_CAP
         THEN FALSE
    ELSE IF score_gap <= -BEHIND_DUCHY_DEFICIT THEN TRUE
    ELSE turn >= MIN_GREEN_TURN

HasTeamName(name) == \E i \in 1..Len(name) : name[i] = TEAM_NAME

_find_me(game) ==
    LET n == Len(game.players)
        named == {i \in 1..n : HasTeamName(game.players[i].name)}
        with_hand == {i \in 1..n : game.players[i].hand.present}
    IN  IF named # {} THEN (CHOOSE i \in named : \A j \in named : i <= j) - 1
        ELSE IF Cardinality(with_hand) = 1 THEN (CHOOSE i \in with_hand : TRUE) - 1
        ELSE IF n > 1 THEN 1 ELSE 0

_should_pivot_to_gardens(game, me_idx) ==
    IF ~_in_stock(game, "gardens") THEN FALSE
    ELSE IF DictGet(game.stock, "province", 0) < GARDENS_EARLY_STOCK THEN FALSE
    ELSE \/ _score_gap(game, me_idx) <= -BEHIND_DUCHY_DEFICIT
         \/ _in_stock(game, "market") \/ _in_stock(game, "festival")

-----------------------------------------------------------------------------
(* Action selector: each picker returns [decision, state] *)

Action(c) == <<"ACTION", c>>
Buy(c) == <<"BUY", c>>
END_TURN == <<"END_TURN">>

Pick(decision, state) == [decision |-> decision, state |-> state]

_act_trashing(q, actions_left, state) ==
    LET has_junk == \/ DictGet(q, "curse", 0) > 0
                    \/ DictGet(q, "estate", 0) > 0
                    \/ DictGet(q, "copper", 0) >= MIN_COPPER_TRASH
    IN  IF DictGet(q, "chapel", 0) > 0 /\ has_junk
        THEN Pick(Action("chapel"),
                  DictPut(state, "actions_left",
                          actions_left - 1 + DictGet(ACTION_PLUS_ACTIONS, "chapel", 0)))
        ELSE IF DictGet(q, "moneylender", 0) > 0 /\ DictGet(q, "copper", 0) > 0
        THEN Pick(Action("moneylender"),
                  DictPut(DictPut(state, "actions_left", actions_left - 1),
                          "action_coins",
                          DictGet(state, "action_coins", 0)
                              + DictGet(ACTION_COIN_BONUS, "moneylender", 0)))
        ELSE IF DictGet(q, "remodel", 0) > 0 \/ DictGet(q, "remake", 0) > 0
        THEN Pick(Action(IF DictGet(q, "remake", 0) > 0 THEN "remake" ELSE "remodel"),
                  DictPut(state, "actions_left", actions_left - 1))
        ELSE Pick(None, state)

InHand(q) == {c \in DOMAIN q : q[c] > 0}

PlayWithBonuses_unspent(c, plus, actions_left, state) ==
    LET s1 == DictPut(state, "actions_left", actions_left + plus)
        s2 == DictPut(s1, "action_coins",
                      DictGet(s1, "action_coins", 0) + DictGet(ACTION_COIN_BONUS, c, 0))
        s3 == DictPut(s2, "extra_buys",
                      DictGet(s2, "extra_buys", 0) + DictGet(ACTION_BUY_BONUS, c, 0))
    IN  [decision |-> <<"ACTION", c>>, state |-> s3]

\* the body shared by the pickers that add the coin and buy bonuses
PlayWithBonuses(c, plus, actions_left, state) ==
    LET s1 == DictPut(state, "actions_left", actions_left - 1 + plus)
        s2 == DictPut(s1, "action_coins",
                      DictGet(s1, "action_coins", 0) + DictGet(ACTION_COIN_BONUS, c, 0))
        s3 == DictPut(s2, "extra_buys",
                      DictGet(s2, "extra_buys", 0) + DictGet(ACTION_BUY_BONUS, c, 0))
    IN  Pick(Action(c), s3)

_act_nonterminal(q, actions_left, state) ==
    LET order == <<"village", "market", "laboratory", "festival", "distantshore",
                   "port", "cellar", "farmingvillage", "magpie", "poacher">>
        c == FirstIn(order, InHand(q))
    IN  IF c # <<>>
        THEN PlayWithBonuses(c[1], DictGet(ACTION_PLUS_ACTIONS, c[1], 0),
                             actions_left, state)
        ELSE Pick(None, state)

_act_attacks(q, actions_left, state) ==
    LET c == FirstIn(<<"witch", "militia", "bandit", "bureaucrat">>, InHand(q))
    IN  IF c # <<>>
        THEN Pick(Action(c[1]), DictPut(state, "actions_left", actions_left - 1))
        ELSE Pick(None, state)

_act_terminal_draw(q, actions_left, state) ==
    LET c == FirstIn(<<"councilroom", "smithy", "library", "adventurer">>, InHand(q))
    IN  IF c # <<>>
        THEN PlayWithBonuses(c[1], 0, actions_left, state)
        ELSE Pick(None, state)

_act_economy(q, actions_left, state) ==
    LET c == FirstIn(<<"mine", "feast", "workshop">>, InHand(q))
    IN  IF c # <<>>
        THEN Pick(Action(c[1]), DictPut(state, "actions_left", actions_left - 1))
        ELSE Pick(None, state)

NotActionCards == {"copper", "silver", "gold", "estate", "duchy", "province"}

\* the loop over the pickers: the first decision that is not None
RunPickers(q, actions_left, state) ==
    LET p1 == _act_trashing(q, actions_left, state)
        p2 == _act_nonterminal(q, actions_left, state)
        p3 == _act_attacks(q, actions_left, state)
        p4 == _act_terminal_draw(q, actions_left, state)
        p5 == _act_economy(q, actions_left, state)
    IN  IF p1.decision # None THEN p1
        ELSE IF p2.decision # None THEN p2
        ELSE IF p3.decision # None THEN p3
        ELSE IF p4.decision # None THEN p4
        ELSE IF p5.decision # None THEN p5
        ELSE Pick(None, state)

choose_action_unguarded(game, me_idx, state) ==
    LET q == HandQuantities(game, me_idx)
        actionable == {k \in DOMAIN q : k \in DOMAIN COSTS /\ k \notin NotActionCards}
    IN  IF actionable = {} THEN Pick(None, state)
        ELSE RunPickers(q, DictGet(state, "actions_left", 1), state)

\* precondition: me_idx is a valid index (game.players[me_idx] raises otherwise)
choose_action(game, me_idx, state) ==
    LET q == HandQuantities(game, me_idx)
        actions_left == DictGet(state, "actions_left", 1)
        actionable == {k \in DOMAIN q : k \in DOMAIN COSTS /\ k \notin NotActionCards}
    IN  IF actions_left <= 0 THEN Pick(None, state)
        ELSE IF actionable = {} THEN Pick(None, state)
        ELSE RunPickers(q, actions_left, state)

-----------------------------------------------------------------------------
(* Action selector of app/strategy/actions.py.  app/strategy/constants.py  *)
(* holds the same tables as app/routers/game.py; the pickers for           *)
(* non-terminals, attacks, terminal draw and economy test and update what  *)
(* those of app/routers/game.py do.                                        *)

\* the player at me_idx, <<>> when the index is out of range (the snapshots
\* carry no "me" field and no player flagged as the caller)
safe_get_me(game, me_idx) ==
    IF 0 <= me_idx /\ me_idx < Len(game.players)
    THEN <<game.players[me_idx + 1]>> ELSE <<>>

strategy_act_trashing(q, actions_left, state) ==
    LET has_junk == DictGet(q, "curse", 0) + DictGet(q, "estate", 0)
                        + DictGet(q, "copper", 0) > 0
    IN  IF actions_left <= 0 \/ ~has_junk THEN Pick(None, state)
        ELSE IF DictGet(q, "chapel", 0) # 0
        THEN Pick(Action("chapel"),
                  DictPut(state, "actions_left",
                          actions_left - 1 + DictGet(ACTION_PLUS_ACTIONS, "chapel", 0)))
        ELSE IF DictGet(q, "moneylender", 0) # 0 /\ DictGet(q, "copper", 0) # 0
        THEN Pick(Action("moneylender"),
                  DictPut(DictPut(state, "actions_left", actions_left - 1),
                          "action_coins",
                          DictGet(state, "action_coins", 0)
                              + DictGet(ACTION_COIN_BONUS, "moneylender", 0)))
        ELSE IF DictGet(q, "remake", 0) # 0 \/ DictGet(q, "remodel", 0) # 0
        THEN Pick(Action(IF DictGet(q, "remake", 0) # 0 THEN "remake" ELSE "remodel"),
                  DictPut(state, "actions_left", actions_left - 1))
        ELSE Pick(None, state)

_act_payload_terminals_no_bonus(q, actions_left, state) ==
    LET c == FirstIn(<<"woodcutter", "chancellor">>, InHand(q))
    IN  IF c # <<>>
        THEN Pick(Action(c[1]), DictPut(state, "actions_left", actions_left - 1))
        ELSE Pick(None, state)

_act_payload_terminals(q, actions_left, state) ==
    LET c == FirstIn(<<"woodcutter", "chancellor">>, InHand(q))
    IN  IF c # <<>>
        THEN PlayWithBonuses(c[1], 0, actions_left, state)
        ELSE Pick(None, state)

strategy_RunPickers_engine_first(q, actions_left, state) ==
    LET p1 == _act_nonterminal(q, actions_left, state)
        p2 == strategy_act_trashing(q, actions_left, state)
    IN  IF p1.decision # None THEN p1 ELSE p2

strategy_RunPickers(q, actions_left, state) ==
    LET p1 == strategy_act_trashing(q, actions_left, state)
        p2 == _act_nonterminal(q, actions_left, state)
        p3 == _act_attacks(q, actions_left, state)
        p4 == _act_terminal_draw(q, actions_left, state)
        p5 == _act_payload_terminals(q, actions_left, state)
        p6 == _act_economy(q, actions_left, state)
    IN  IF p1.decision # None THEN p1
        ELSE IF p2.decision # None THEN p2
        ELSE IF p3.decision # None THEN p3
        ELSE IF p4.decision # None THEN p4
        ELSE IF p5.decision # None THEN p5
        ELSE IF p6.decision # None THEN p6
        ELSE Pick(None, state)

strategy_choose_action_unguarded(game, me_idx, state) ==
    LET me == safe_get_me(game, me_idx)
        q == me[1].hand.quantities
        actionable == {k \in DOMAIN q : k \in DOMAIN COSTS /\ k \notin NotActionCards}
    IN  IF me = <<>> \/ ~me[1].hand.present THEN Pick(None, state)
        ELSE IF actionable = {} THEN Pick(None, state)
        ELSE strategy_RunPickers(q, DictGet(state, "actions_left", 1), state)

strategy_choose_action(game, me_idx, state) ==
    LET me == safe_get_me(game, me_idx)
        q == me[1].hand.quantities
        actions_left == DictGet(state, "actions_left", 1)
        actionable == {k \in DOMAIN q : k \in DOMAIN COSTS /\ k \notin NotActionCards}
    IN  IF me = <<>> \/ ~me[1].hand.present THEN Pick(None, state)
        ELSE IF actions_left <= 0 THEN Pick(None, state)
        ELSE IF actionable = {} THEN Pick(None, state)
        ELSE strategy_RunPickers(q, actions_left, state)

-----------------------------------------------------------------------------
(* Buy pipeline of app/routers/game.py: a step returns Buy(c) or None *)

\* "for c in order: if _in_stock(game, c): return BUY c", else None
BuyFirstInStock(game, order) ==
    LET c == FirstIn(order, {k \in DOMAIN game.stock : _in_stock(game, k)})
    IN  IF c # <<>> THEN Buy(c[1]) ELSE None

VpBuy(game, coins) ==
    IF coins >= BUY_PROVINCE_COINS /\ DictGet(game.stock, "province", 0) > 0
    THEN Buy("province")
    ELSE IF coins >= BUY_5_COST_COINS /\ _in_stock(game, "duchy") THEN Buy("duchy")
    ELSE IF coins >= BUY_SILVER_COINS /\ _in_stock(game, "estate") THEN Buy("estate")
    ELSE None

_endgame_buy(game, coins, provinces_left, my_score, best_opp, turn) ==
    IF turn >= RUSH_TURN THEN VpBuy(game, coins)
    ELSE IF provinces_left <= ENDGAME_PROVINCE_THRESHOLD THEN VpBuy(game, coins)
    ELSE None

_midgame_buy(game, coins, provinces_left, my_score, best_opp, turn) ==
    IF turn >= RUSH_TURN /\ coins >= BUY_PROVINCE_COINS /\ _in_stock(game, "province")
    THEN Buy("province")
    ELSE IF /\ provinces_left <= MIDGAME_PROVINCE_THRESHOLD
            /\ coins >= BUY_PROVINCE_COINS /\ _in_stock(game, "province")
    THEN Buy("province")
    ELSE IF /\ provinces_left <= MIDGAME_PROVINCE_THRESHOLD
            /\ coins >= BUY_5_COST_COINS /\ _in_stock(game, "duchy")
            /\ my_score <= best_opp
    THEN Buy("duchy")
    ELSE IF /\ (best_opp - my_score) >= BEHIND_DUCHY_DEFICIT
            /\ coins >= BUY_5_COST_COINS /\ _in_stock(game, "duchy")
    THEN Buy("duchy")
    ELSE None

_economy_buy(game, coins) ==
    IF coins >= BUY_GOLD_COINS /\ DictGet(game.stock, "gold", 0) > 0
    THEN Buy("gold") ELSE None

InStockOf(game, order) == SelectSeq(order, LAMBDA c : _in_stock(game, c))

_five_need_actions(counts) == _terminal_capacity(counts) <= 0

_five_wishlist_curses(game) ==
    IF DictGet(game.stock, "curse", 0) > 0 /\ _in_stock(game, "witch")
    THEN <<"witch">> ELSE <<>>

_five_wishlist_labs(game, counts) ==
    IF _in_stock(game, "laboratory") /\ DictGet(counts, "laboratory", 0) < MAX_LABS
    THEN <<"laboratory">> ELSE <<>>

_five_wishlist_need_actions(game, counts, coins) ==
    IF _five_need_actions(counts)
    THEN InStockOf(game, <<"market", "festival">>)
         \o (IF _in_stock(game, "village") /\ coins >= BUY_4_COST_COINS
             THEN <<"village">> ELSE <<>>)
    ELSE <<>>

_five_wishlist_gardens_line(game, gardens_plan) ==
    IF ~gardens_plan THEN <<>>
    ELSE InStockOf(game, <<"market", "festival", "laboratory">>)

FIVE_COST_PREFER == <<"laboratory", "market", "festival">>

_five_wishlist_defaults(game) == InStockOf(game, FIVE_COST_PREFER)

_five_wishlist_fallback(game) ==
    IF _in_stock(game, "silver") THEN <<"silver">> ELSE <<>>

_five_cost_buy(game, coins, counts, gardens_plan) ==
    IF coins < BUY_5_COST_COINS THEN None
    ELSE LET wishlist == _five_wishlist_curses(game)
                         \o _five_wishlist_labs(game, counts)
                         \o _five_wishlist_need_actions(game, counts, coins)
                         \o _five_wishlist_gardens_line(game, gardens_plan)
                         \o _five_wishlist_defaults(game)
                         \o _five_wishlist_fallback(game)
         IN  IF wishlist # <<>> THEN Buy(wishlist[1]) ELSE None

_four_cost_buy(game, coins, counts) ==
    IF coins < BUY_4_COST_COINS THEN None
    ELSE LET d == BuyFirstInStock(game, <<"moneylender", "militia", "port",
                                          "poacher", "remodel", "remake">>)
         IN  IF d # None THEN d
             ELSE IF _terminal_capacity(counts) <= 0 /\ _in_stock(game, "village")
             THEN Buy("village")
             ELSE BuyFirstInStock(game, <<"smithy", "gardens", "silver">>)

_three_cost_buy_unstocked(game, coins) ==
    IF coins >= COINS_EQ_3 THEN Buy("silver") ELSE None

_three_cost_buy(game, coins) ==
    IF coins >= COINS_EQ_3
    THEN BuyFirstInStock(game, <<"workshop", "village", "woodcutter", "silver">>)
    ELSE None

_six_cost_buy(game, coins, counts, turn) ==
    IF coins < BUY_GOLD_COINS THEN None
    ELSE IF /\ _in_stock(game, "hireling")
            /\ ~(DictGet(counts, "hireling", 0) > 0)
            /\ turn <= MIN_GREEN_TURN + 4
    THEN Buy("hireling")
    ELSE IF /\ _in_stock(game, "distantshore")
            /\ (_engine_ready(counts) \/ turn <= MIN_GREEN_TURN)
    THEN Buy("distantshore")
    ELSE None

_opening_buy_5plus(game) ==
    IF DictGet(game.stock, "curse", 0) > 0 /\ _in_stock(game, "witch")
    THEN Buy("witch")
    ELSE BuyFirstInStock(game, <<"laboratory", "market", "festival", "councilroom">>)

_opening_buy_4(game) ==
    BuyFirstInStock(game, <<"moneylender", "militia", "smithy", "remodel", "remake",
                            "poacher", "port", "village", "silver">>)

_opening_buy_3(game) ==
    BuyFirstInStock(game, <<"workshop", "village", "woodcutter", "silver">>)

_opening_buy_2(game, counts) ==
    IF DictGet(counts, "chapel", 0) = 0 /\ _in_stock(game, "chapel")
    THEN Buy("chapel")
    ELSE BuyFirstInStock(game, <<"cellar", "estate">>)

_opening_buys(game, coins, counts, turn) ==
    IF turn > OPENING_TURN_LIMIT THEN None
    ELSE IF coins >= COINS_EQ_5 /\ _opening_buy_5plus(game) # None
    THEN _opening_buy_5plus(game)
    ELSE IF coins = COINS_EQ_4 /\ _opening_buy_4(game) # None
    THEN _opening_buy_4(game)
    ELSE IF coins = COINS_EQ_3 /\ _opening_buy_3(game) # None
    THEN _opening_buy_3(game)
    ELSE IF coins = BUY_4_COST_COINS - 2 THEN _opening_buy_2(game, counts)
    ELSE None

\* ctx is the BuyCtx tuple [provinces_left, score_gap, turn]
_step_province_if_ok(game, coins, counts, ctx) ==
    IF /\ coins >= BUY_PROVINCE_COINS /\ _in_stock(game, "province")
       /\ _early_province_ok(counts, ctx.provinces_left, ctx.turn, ctx.score_gap)
    THEN Buy("province") ELSE None

_step_gold_if_building(game, coins, counts, ctx) ==
    IF /\ coins >= BUY_PROVINCE_COINS /\ _in_stock(game, "gold")
       /\ ~_early_province_ok(counts, ctx.provinces_left, ctx.turn, ctx.score_gap)
    THEN Buy("gold") ELSE None

_step_gardens_primary(game, coins, gardens_plan) ==
    IF gardens_plan /\ coins >= BUY_4_COST_COINS /\ _in_stock(game, "gardens")
    THEN Buy("gardens") ELSE None

_step_gardens_secondary(game, coins, counts, gardens_plan) ==
    IF ~gardens_plan THEN None
    ELSE _five_cost_buy(game, coins, counts, TRUE)

RECURSIVE FirstDecision(_)
FirstDecision(steps) ==
    IF steps = <<>> THEN END_TURN
    ELSE IF Head(steps) # None THEN Head(steps)
    ELSE FirstDecision(Tail(steps))

\* precondition: me_idx is a valid index (_score_status raises otherwise)
choose_buy_action(game, coins, me_idx, state) ==
    LET counts == state["counts"]
        provinces_left == DictGet(game.stock, "province", 0)
        score == _score_status(game, me_idx)
        my_score == score[1]
        best_opp == score[2]
        gardens_plan == DictGet(state, "gardens_plan", FALSE)
        turn == DictGet(state, "turn", 1)
        ctx == [provinces_left |-> provinces_left,
                score_gap |-> my_score - best_opp,
                turn |-> turn]
    IN  FirstDecision(<<
            _opening_buys(game, coins, counts, turn),
            _step_province_if_ok(game, coins, counts, ctx),
            _step_gold_if_building(game, coins, counts, ctx),
            _endgame_buy(game, coins, ctx.provinces_left, my_score, best_opp, ctx.turn),
            _midgame_buy(game, coins, ctx.provinces_left, my_score, best_opp, ctx.turn),
            _step_gardens_primary(game, coins, gardens_plan),
            _step_gardens_secondary(game, coins, counts, gardens_plan),
            _six_cost_buy(game, coins, counts, turn),
            _economy_buy(game, coins),
            _five_cost_buy(game, coins, counts, FALSE),
            _four_cost_buy(game, coins, counts),
            _three_cost_buy(game, coins)>>)

-----------------------------------------------------------------------------
(* The state store and the handlers *)

\* the record the defaultdict factory of TURN_STATE builds
DefaultState == [bought |-> FALSE, counts |-> EmptyDict]

\* TURN_STATE[game_id] on the defaultdict: the store after the access
Touch(store, game_id) == DictSetDefault(store, game_id, DefaultState)

_get_state_fresh_counts(store, game_id) ==
    DictPut(Touch(store, game_id)[game_id], "counts", EmptyDict)

\* the record _get_state returns (counts is always present and a defaultdict)
_get_state(store, game_id) ==
    LET state == Touch(store, game_id)[game_id]
    IN  IF "counts" \notin DOMAIN state THEN DictPut(state, "counts", EmptyDict)
        ELSE state

start_turn_keeps_extra_buys(state) ==
    LET s1 == DictPut(state, "bought", FALSE)
        s2 == DictPut(s1, "buys_left", 1)
        s3 == DictPut(s2, "coins_left", 0)
        s4 == DictPut(s3, "initialized_resources", FALSE)
        s5 == DictPut(s4, "phase", "ACTION")
        s6 == DictPut(s5, "actions_left", 1)
        s7 == DictPut(s6, "action_coins", 0)
    IN  DictPut(s7, "turn", DictGet(state, "turn", 0) + 1)

start_turn(state) ==
    LET s1 == DictPut(state, "bought", FALSE)
        s2 == DictPut(s1, "buys_left", 1)
        s3 == DictPut(s2, "coins_left", 0)
        s4 == DictPut(s3, "initialized_resources", FALSE)
        s5 == DictPut(s4, "phase", "ACTION")
        s6 == DictPut(s5, "actions_left", 1)
        s7 == DictPut(s6, "action_coins", 0)
        s8 == DictPut(s7, "extra_buys", 0)
    IN  DictPut(s8, "turn", DictGet(state, "turn", 0) + 1)

end_game_clears_store(store, game_id) == EmptyDict

end_game(store, game_id) == DictPop(store, game_id)

\* /start_game logs the request and answers OK: the store is not accessed
start_game(store, game_id) == store

\* strategy_name.strip().lower() on the names the configuration route is sent
strip_lower(strategy_name) ==
    CASE strategy_name = "Combo_Engine" -> "combo_engine"
      [] strategy_name = " bm_smithy " -> "bm_smithy"
      [] OTHER -> strategy_name

\* the new value of the process-wide DEFAULT_STRATEGY
change_strategy(strategy_name) == strip_lower(strategy_name)

\* the request headers the handlers see: the default strategy is appended
\* when the client sent no x-strategy header
inject_default_strategy(headers, default_strategy) ==
    IF "x-strategy" \notin DOMAIN headers
    THEN DictPut(headers, "x-strategy", default_strategy)
    ELSE headers

\* what one /play request yields: the record after it, the decision, and
\* the coins and buys it computed (0 when the BUY phase was not reached)
Out(state, decision, coins, buys) ==
    [state |-> state, decision |-> decision, coins |-> coins, buys |-> buys]

ERROR == <<"ERROR">>

\* decision.split(" ", 1)[1].strip().lower(): the second token of the
\* decision; card names are single lower-case tokens
CardOf(decision) == decision[2]

AfterBuy(state, decision, coins_left) ==
    LET card == CardOf(decision)
        cost == DictGet(COSTS, card, 0)
        s1 == DictPut(state, "bought", TRUE)
        s2 == DictPut(s1, "coins_left", Max2(0, coins_left - cost))
        s3 == DictPut(s2, "buys_left", Max2(0, DictGet(s2, "buys_left", 1) - 1))
        counts == s3["counts"]
    IN  DictPut(s3, "counts", DictPut(counts, card, DictGet(counts, card, 0) + 1))

BuyPhase(game, me_idx, state) ==
    LET treasure_coins == _compute_treasure_coins(game, me_idx)
        coins_left == treasure_coins + DictGet(state, "action_coins", 0)
        buys_left == DictGet(state, "buys_left", 1) + DictGet(state, "extra_buys", 0)
        s1 == DictPut(state, "coins_left", coins_left)
        affordable_any ==
            \/ DictGet(game.stock, "province", 0) > 0 /\ coins_left >= BUY_PROVINCE_COINS
            \/ DictGet(game.stock, "gold", 0) > 0 /\ coins_left >= BUY_GOLD_COINS
            \/ coins_left >= BUY_SILVER_COINS
        decision == choose_buy_action(game, coins_left, me_idx, s1)
    IN  IF buys_left <= 0 \/ ~affordable_any
        THEN Out(s1, END_TURN, coins_left, buys_left)
        ELSE IF decision[1] = "BUY"
        THEN Out(AfterBuy(s1, decision, coins_left), decision, coins_left, buys_left)
        ELSE Out(s1, decision, coins_left, buys_left)

\* "if 'gardens_plan' not in state: state['gardens_plan'] = ..."
PlanGardens_always(state, game, me_idx) ==
    DictPut(state, "gardens_plan", _should_pivot_to_gardens(game, me_idx))

PlanGardens(state, game, me_idx) ==
    IF "gardens_plan" \in DOMAIN state THEN state
    ELSE DictPut(state, "gardens_plan", _should_pivot_to_gardens(game, me_idx))

EnterBuy_skipped(state) == state

\* "no action to play -> transition to BUY"
EnterBuy(state) == DictPut(state, "phase", "BUY")

play(state, game) ==
    LET me_idx == _find_me(game)
        d1 == DictSetDefault(state, "phase", "ACTION")
        d2 == DictSetDefault(d1, "actions_left", 1)
        d3 == DictSetDefault(d2, "action_coins", 0)
        d4 == DictSetDefault(d3, "extra_buys", 0)
        d5 == DictSetDefault(d4, "buys_left", 1)
        \* game.players[me_idx] raises IndexError on an empty players list
        no_player == me_idx + 1 > Len(game.players)
        pivot_reads_player == /\ _in_stock(game, "gardens")
                              /\ DictGet(game.stock, "province", 0) >= GARDENS_EARLY_STOCK
        planned == PlanGardens(d5, game, me_idx)
        act == choose_action(game, me_idx, planned)
    IN  IF "gardens_plan" \notin DOMAIN d5 /\ no_player /\ pivot_reads_player
        THEN Out(d5, ERROR, 0, 0)
        ELSE IF no_player THEN Out(planned, ERROR, 0, 0)
        ELSE IF planned["phase"] = "ACTION" /\ act.decision # None
        THEN Out(act.state, act.decision, 0, 0)
        ELSE IF planned["phase"] = "ACTION"
        THEN BuyPhase(game, me_idx, EnterBuy(act.state))
        ELSE BuyPhase(game, me_idx, planned)

-----------------------------------------------------------------------------
(* Helpers of app/strategy/utils.py and constants of                       *)
(* app/strategy/constants.py that app/routers/game.py does not have; the   *)
(* thresholds and tables of the same name hold the same values in both     *)

EARLY_HIRELING_TURN == 10
MAX_SMITHIES == 2

in_stock(game, card) == DictGet(game.stock, card, 0) > 0

\* (my_score, best_opponent_score): 0 for a seat that is not found, and the
\* best opponent score starts from 0
score_status(game, me_idx) ==
    LET me == safe_get_me(game, me_idx)
        my_score == IF me # <<>> THEN me[1].score ELSE 0
        others == {i \in 1..Len(game.players) : me = <<>> \/ i # me_idx + 1}
        scores == {0} \cup {game.players[i].score : i \in others}
    IN  <<my_score, CHOOSE s \in scores : \A t \in scores : s >= t>>

terminal_capacity(counts) ==
    LET plus_actions == 2 * DictGet(counts, "village", 0)
                        + 1 * DictGet(counts, "market", 0)
                        + 1 * DictGet(counts, "laboratory", 0)
                        + 2 * DictGet(counts, "festival", 0)
                        + 2 * DictGet(counts, "port", 0)
                        + 1 * DictGet(counts, "poacher", 0)
                        + 1 * DictGet(counts, "cellar", 0)
                        + 2 * DictGet(counts, "farmingvillage", 0)
                        + 1 * DictGet(counts, "magpie", 0)
        terminals == DictGet(counts, "smithy", 0) + DictGet(counts, "witch", 0)
                     + DictGet(counts, "militia", 0) + DictGet(counts, "bandit", 0)
                     + DictGet(counts, "bureaucrat", 0)
                     + DictGet(counts, "chancellor", 0)
                     + DictGet(counts, "woodcutter", 0)
                     + DictGet(counts, "moneylender", 0)
                     + DictGet(counts, "remodel", 0) + DictGet(counts, "remake", 0)
                     + DictGet(counts, "mine", 0) + DictGet(counts, "feast", 0)
                     + DictGet(counts, "workshop", 0)
    IN  plus_actions - terminals

-----------------------------------------------------------------------------
(* Buy rules of app/strategy/buys.py: a rule returns Buy(c) or None *)

\* "for c in order: if in_stock(game, c): return BUY c", else None
FirstStocked(game, order) ==
    LET c == FirstIn(order, {k \in DOMAIN game.stock : in_stock(game, k)})
    IN  IF c # <<>> THEN Buy(c[1]) ELSE None

engine_ready(counts) ==
    IF DictGet(counts, "gold", 0) >= ENGINE_GOLD_THRESHOLD THEN TRUE
    ELSE IF DictGet(counts, "laboratory", 0) >= ENGINE_LAB_THRESHOLD THEN TRUE
    ELSE IF DictGet(counts, "market", 0) + DictGet(counts, "festival", 0)
                >= ENGINE_MF_SUM_THRESHOLD THEN TRUE
    ELSE /\ DictGet(counts, "village", 0) >= 1
         /\ DictGet(counts, "smithy", 0) + DictGet(counts, "councilroom", 0)
                + DictGet(counts, "library", 0) >= 1

early_province_ok(counts, provinces_left, turn, score_gap) ==
    IF turn >= RUSH_TURN THEN TRUE
    ELSE IF provinces_left <= EARLY_PROVINCE_STOCK THEN TRUE
    ELSE IF engine_ready(counts) THEN TRUE
    ELSE IF turn < MIN_GREEN_TURN /\ score_gap > -BEHIND_DUCHY_DEFICIT THEN FALSE
    ELSE IF /\ turn < PROVINCE_SOFT_CAP_BEFORE_TURN
            /\ DictGet(counts, "province", 0) >= PROVINCES_ALLOWED_BEFORE_CAP
         THEN FALSE
    ELSE IF score_gap <= -BEHIND_DUCHY_DEFICIT THEN TRUE
    ELSE turn >= MIN_GREEN_TURN

\* the three victory purchases shared by both branches of endgame_buy
VictoryBuy(game, coins) ==
    IF coins >= BUY_PROVINCE_COINS /\ DictGet(game.stock, "province", 0) > 0
    THEN Buy("province")
    ELSE IF coins >= BUY_5_COST_COINS /\ in_stock(game, "duchy") THEN Buy("duchy")
    ELSE IF coins >= BUY_SILVER_COINS /\ in_stock(game, "estate") THEN Buy("estate")
    ELSE None

endgame_buy(game, coins, provinces_left, my_score, best_opp, turn) ==
    IF turn >= RUSH_TURN THEN VictoryBuy(game, coins)
    ELSE IF provinces_left <= ENDGAME_PROVINCE_THRESHOLD THEN VictoryBuy(game, coins)
    ELSE None

midgame_buy(game, coins, provinces_left, my_score, best_opp, turn) ==
    IF turn >= RUSH_TURN /\ coins >= BUY_PROVINCE_COINS /\ in_stock(game, "province")
    THEN Buy("province")
    ELSE IF /\ provinces_left <= MIDGAME_PROVINCE_THRESHOLD
            /\ coins >= BUY_PROVINCE_COINS /\ in_stock(game, "province")
    THEN Buy("province")
    ELSE IF /\ provinces_left <= MIDGAME_PROVINCE_THRESHOLD
            /\ coins >= BUY_5_COST_COINS /\ in_stock(game, "duchy")
            /\ my_score <= best_opp
    THEN Buy("duchy")
    ELSE IF /\ (best_opp - my_score) >= BEHIND_DUCHY_DEFICIT
            /\ coins >= BUY_5_COST_COINS /\ in_stock(game, "duchy")
    THEN Buy("duchy")
    ELSE None

economy_buy(game, coins) ==
    IF coins >= BUY_GOLD_COINS /\ DictGet(game.stock, "gold", 0) > 0
    THEN Buy("gold") ELSE None

five_wishlist(game, counts, coins, gardens_plan) ==
    (IF DictGet(game.stock, "curse", 0) > 0 /\ in_stock(game, "witch")
     THEN <<"witch">> ELSE <<>>)
    \o (IF in_stock(game, "laboratory") /\ DictGet(counts, "laboratory", 0) < MAX_LABS
        THEN <<"laboratory">> ELSE <<>>)
    \o (IF terminal_capacity(counts) <= 0
        THEN InStockOf(game, <<"market", "festival">>)
             \o (IF in_stock(game, "village") /\ coins >= BUY_4_COST_COINS
                 THEN <<"village">> ELSE <<>>)
        ELSE <<>>)
    \o (IF gardens_plan THEN InStockOf(game, <<"market", "festival", "laboratory">>)
        ELSE <<>>)
    \o InStockOf(game, FIVE_COST_PREFER)
    \o (IF in_stock(game, "silver") THEN <<"silver">> ELSE <<>>)

five_cost_buy(game, coins, counts, gardens_plan) ==
    IF coins < BUY_5_COST_COINS THEN None
    ELSE LET w == five_wishlist(game, counts, coins, gardens_plan)
         IN  IF w # <<>> THEN Buy(w[1]) ELSE None

four_cost_buy(game, coins, counts) ==
    IF coins < BUY_4_COST_COINS THEN None
    ELSE LET d == FirstStocked(game, <<"moneylender", "militia", "port",
                                       "poacher", "remodel", "remake">>)
         IN  IF d # None THEN d
             ELSE IF terminal_capacity(counts) <= 0 /\ in_stock(game, "village")
             THEN Buy("village")
             ELSE FirstStocked(game, <<"smithy", "gardens", "silver">>)

three_cost_buy(game, coins) ==
    IF coins < COINS_EQ_3 THEN None
    ELSE FirstStocked(game, <<"workshop", "village", "woodcutter", "silver">>)

opening_buy_5plus(game) ==
    IF DictGet(game.stock, "curse", 0) > 0 /\ in_stock(game, "witch")
    THEN Buy("witch")
    ELSE FirstStocked(game, <<"laboratory", "market", "festival", "councilroom">>)

opening_buy_4(game) ==
    FirstStocked(game, <<"moneylender", "militia", "smithy", "remodel", "remake",
                         "poacher", "port", "village", "silver">>)

opening_buy_3(game) ==
    FirstStocked(game, <<"workshop", "village", "woodcutter", "silver">>)

opening_buy_2(game, counts) ==
    IF DictGet(counts, "chapel", 0) = 0 /\ in_stock(game, "chapel")
    THEN Buy("chapel")
    ELSE FirstStocked(game, <<"cellar", "estate">>)

opening_buys(game, coins, counts, turn) ==
    IF turn > OPENING_TURN_LIMIT THEN None
    ELSE IF coins >= COINS_EQ_5 /\ opening_buy_5plus(game) # None
    THEN opening_buy_5plus(game)
    ELSE IF coins = COINS_EQ_4 /\ opening_buy_4(game) # None
    THEN opening_buy_4(game)
    ELSE IF coins = COINS_EQ_3 /\ opening_buy_3(game) # None
    THEN opening_buy_3(game)
    ELSE IF coins = BUY_4_COST_COINS - 2 THEN opening_buy_2(game, counts)
    ELSE None

six_cost_buy(game, coins, counts, turn) ==
    IF coins < BUY_GOLD_COINS THEN None
    ELSE IF /\ in_stock(game, "hireling")
            /\ DictGet(counts, "hireling", 0) = 0
            /\ turn <= EARLY_HIRELING_TURN
    THEN Buy("hireling")
    ELSE IF /\ in_stock(game, "distantshore")
            /\ engine_ready(counts)
            /\ turn < (RUSH_TURN - EARLY_HIRELING_TURN)
    THEN Buy("distantshore")
    ELSE None

-----------------------------------------------------------------------------
(* Baseline pipeline of app/strategy/pipeline.py.  ctx is the BuyCtx tuple  *)
(* [provinces_left, score_gap, turn] (the class of that name is declared in *)
(* app/routers/game.py).  A NameError escaping a step is the decision       *)
(* <<"ERROR">>.                                                             *)

step_opening(game, coins, counts, turn) == opening_buys(game, coins, counts, turn)

step_province_if_ok_ungated(game, coins, counts, ctx) ==
    IF coins >= BUY_PROVINCE_COINS /\ in_stock(game, "province")
    THEN Buy("province") ELSE None

step_province_if_ok(game, coins, counts, ctx) ==
    IF /\ coins >= BUY_PROVINCE_COINS /\ in_stock(game, "province")
       /\ early_province_ok(counts, ctx.provinces_left, ctx.turn, ctx.score_gap)
    THEN Buy("province") ELSE None

step_gold_if_building(game, coins, counts, ctx) ==
    IF /\ coins >= BUY_GOLD_COINS /\ in_stock(game, "gold")
       /\ ~early_province_ok(counts, ctx.provinces_left, ctx.turn, ctx.score_gap)
    THEN Buy("gold") ELSE None

step_vp_override(game, coins, ctx) ==
    IF ctx.provinces_left <= 4 \/ ctx.turn >= (RUSH_TURN - 5)
    THEN IF coins >= 8 /\ in_stock(game, "province") THEN Buy("province")
         ELSE IF coins >= 5 /\ in_stock(game, "duchy") THEN Buy("duchy")
         ELSE IF coins >= 2 /\ in_stock(game, "estate") THEN Buy("estate")
         ELSE None
    ELSE None

step_endgame(game, coins, ctx, my_score, best_opp) ==
    endgame_buy(game, coins, ctx.provinces_left, my_score, best_opp, ctx.turn)

step_midgame(game, coins, ctx, my_score, best_opp) ==
    midgame_buy(game, coins, ctx.provinces_left, my_score, best_opp, ctx.turn)

step_gardens_primary(game, coins, gardens_plan) ==
    IF gardens_plan /\ coins >= BUY_4_COST_COINS /\ in_stock(game, "gardens")
    THEN Buy("gardens") ELSE None

step_gardens_secondary(game, coins, counts, gardens_plan) ==
    IF ~gardens_plan THEN None
    ELSE five_cost_buy(game, coins, counts, TRUE)

step_silver_floor(game, coins, counts, turn) ==
    IF /\ coins \in {3, 4} /\ DictGet(counts, "silver", 0) < 2 /\ turn <= 10
       /\ in_stock(game, "silver")
    THEN Buy("silver") ELSE None

step_economy(game, coins) == economy_buy(game, coins)

step_five(game, coins, counts) == five_cost_buy(game, coins, counts, FALSE)

step_four(game, coins, counts) == four_cost_buy(game, coins, counts)

step_three(game, coins) == three_cost_buy(game, coins)

\* COSTS is not a name of pipeline.py (it imports only thresholds from
\* constants.py): the first evaluation of COSTS.get raises NameError, on the
\* first menu card that is in stock and not skipped for capacity, else in
\* the silver test once its first two conjuncts hold
step_last_resort_menu(game, coins, counts) ==
    LET cap == terminal_capacity(counts)
        engine_order == <<"market", "festival", "laboratory", "village",
                          "farmingvillage", "port", "poacher", "smithy",
                          "councilroom", "library">>
        priced == SelectSeq(engine_order, LAMBDA card :
                      /\ in_stock(game, card)
                      /\ ~(card \in {"smithy", "councilroom", "library"} /\ cap <= 0))
    IN  IF priced # <<>> THEN ERROR
        ELSE IF DictGet(counts, "silver", 0) < 1 /\ in_stock(game, "silver")
        THEN ERROR
        ELSE None

\* "for s in steps: d = s(); if d: return d": the first result that is not
\* None, None when every step declines
RECURSIVE FirstProposal(_)
FirstProposal(steps) ==
    IF steps = <<>> THEN None
    ELSE IF Head(steps) # None THEN Head(steps)
    ELSE FirstProposal(Tail(steps))

\* the results of the fifteen steps in declared order
PipelineSteps(game, coins, me_idx, state) ==
    LET counts == state["counts"]
        provinces_left == DictGet(game.stock, "province", 0)
        score == score_status(game, me_idx)
        my_score == score[1]
        best_opp == score[2]
        gardens_plan == DictGet(state, "gardens_plan", FALSE)
        turn == DictGet(state, "turn", 1)
        ctx == [provinces_left |-> provinces_left,
                score_gap |-> my_score - best_opp,
                turn |-> turn]
    IN  << step_opening(game, coins, counts, turn),
           step_province_if_ok(game, coins, counts, ctx),
           step_gold_if_building(game, coins, counts, ctx),
           step_vp_override(game, coins, ctx),
           step_endgame(game, coins, ctx, my_score, best_opp),
           step_midgame(game, coins, ctx, my_score, best_opp),
           step_gardens_primary(game, coins, gardens_plan),
           step_gardens_secondary(game, coins, counts, gardens_plan),
           step_silver_floor(game, coins, counts, turn),
           step_economy(game, coins),
           six_cost_buy(game, coins, counts, turn),
           step_five(game, coins, counts),
           step_four(game, coins, counts),
           step_three(game, coins),
           step_last_resort_menu(game, coins, counts) >>

\* the copper filler after the loop
CopperFiller(game, state) ==
    LET gardens_plan == DictGet(state, "gardens_plan", FALSE)
        turn == DictGet(state, "turn", 1)
        extra_buys == DictGet(state, "extra_buys", 0)
        buys_left == DictGet(state, "buys_left", 1)
    IN  IF /\ gardens_plan /\ in_stock(game, "copper")
           /\ ((extra_buys > 0 \/ buys_left > 1) \/ turn >= 18)
        THEN Buy("copper") ELSE END_TURN

strategy_choose_buy_action(game, coins, me_idx, state) ==
    LET d == FirstProposal(PipelineSteps(game, coins, me_idx, state))
    IN  IF d # None THEN d ELSE CopperFiller(game, state)

-----------------------------------------------------------------------------
(* Alternative pipelines and the registry of app/strategy/strategies.py *)

_vp_pressure_fallback(game, coins, turn) ==
    LET provinces_left == DictGet(game.stock, "province", 0)
    IN  IF /\ coins >= BUY_PROVINCE_COINS /\ in_stock(game, "province")
           /\ (provinces_left <= ENDGAME_PROVINCE_THRESHOLD \/ turn >= (RUSH_TURN - 3))
        THEN Buy("province")
        ELSE IF /\ coins >= BUY_5_COST_COINS /\ in_stock(game, "duchy")
                /\ (provinces_left <= ENDGAME_PROVINCE_THRESHOLD
                    \/ turn >= (RUSH_TURN - 1))
        THEN Buy("duchy")
        ELSE IF /\ coins >= 2 /\ in_stock(game, "estate")
                /\ (provinces_left <= 2 \/ turn >= RUSH_TURN)
        THEN Buy("estate")
        ELSE None

\* "if <test>: return BUY c" as a proposal
If(test, c) == IF test THEN Buy(c) ELSE None

\* the first proposal of a chain of returns, END_TURN at its end
FirstOrEndTurn(proposals) ==
    LET d == FirstProposal(proposals) IN IF d # None THEN d ELSE END_TURN

_bm_smithy(game, coins, me_idx, state) ==
    LET counts == state["counts"]
        turn == DictGet(state, "turn", 1)
    IN  FirstOrEndTurn(<<
            _vp_pressure_fallback(game, coins, turn),
            If(coins >= BUY_PROVINCE_COINS /\ in_stock(game, "province"), "province"),
            If(coins >= BUY_GOLD_COINS /\ in_stock(game, "gold"), "gold"),
            If(/\ coins >= BUY_5_COST_COINS /\ DictGet(counts, "smithy", 0) < 2
               /\ in_stock(game, "smithy"), "smithy"),
            IF coins >= BUY_5_COST_COINS
            THEN FirstStocked(game, <<"laboratory", "duchy">>) ELSE None,
            If(coins >= BUY_SILVER_COINS /\ in_stock(game, "silver"), "silver") >>)

_village_smithy(game, coins, me_idx, state) ==
    LET counts == state["counts"]
        turn == DictGet(state, "turn", 1)
        cap == terminal_capacity(counts)
    IN  FirstOrEndTurn(<<
            _vp_pressure_fallback(game, coins, turn),
            If(coins >= BUY_PROVINCE_COINS /\ in_stock(game, "province"), "province"),
            If(coins >= BUY_GOLD_COINS /\ in_stock(game, "gold"), "gold"),
            IF coins >= BUY_5_COST_COINS
            THEN FirstProposal(<<
                     FirstStocked(game, <<"laboratory", "market", "festival">>),
                     If(/\ cap > 0 /\ DictGet(counts, "smithy", 0) < 5
                        /\ in_stock(game, "smithy"), "smithy"),
                     If(in_stock(game, "duchy") /\ turn >= (RUSH_TURN - 4), "duchy") >>)
            ELSE None,
            IF coins >= BUY_4_COST_COINS
            THEN FirstProposal(<<
                     If(in_stock(game, "village") /\ DictGet(counts, "village", 0) < 6,
                        "village"),
                     FirstStocked(game, <<"moneylender", "militia", "remodel",
                                          "remake", "port", "poacher">>) >>)
            ELSE None,
            If(coins >= BUY_SILVER_COINS /\ in_stock(game, "silver"), "silver") >>)

_militia_market_counter(game, coins, me_idx, state) ==
    LET counts == state["counts"]
        turn == DictGet(state, "turn", 1)
        cap == terminal_capacity(counts)
        have_gold == DictGet(counts, "gold", 0) >= 1
    IN  FirstOrEndTurn(<<
            _vp_pressure_fallback(game, coins, turn),
            If(coins >= BUY_PROVINCE_COINS /\ in_stock(game, "province"), "province"),
            If(/\ DictGet(counts, "militia", 0) = 0 /\ coins >= BUY_4_COST_COINS
               /\ in_stock(game, "militia"), "militia"),
            If(/\ coins >= BUY_5_COST_COINS /\ DictGet(counts, "market", 0) < 5
               /\ in_stock(game, "market"), "market"),
            If(~have_gold /\ coins >= BUY_GOLD_COINS /\ in_stock(game, "gold"), "gold"),
            If(/\ coins >= BUY_5_COST_COINS /\ DictGet(counts, "smithy", 0) < 5
               /\ cap > 0 /\ in_stock(game, "smithy"), "smithy"),
            If(/\ coins >= BUY_4_COST_COINS /\ DictGet(counts, "village", 0) < 6
               /\ in_stock(game, "village"), "village"),
            If(/\ coins >= 2 /\ DictGet(counts, "cellar", 0) = 0
               /\ in_stock(game, "cellar"), "cellar"),
            If(coins >= BUY_GOLD_COINS /\ in_stock(game, "gold"), "gold"),
            If(coins >= BUY_SILVER_COINS /\ in_stock(game, "silver"), "silver") >>)

_remodel_market_engine(game, coins, me_idx, state) ==
    LET counts == state["counts"]
        turn == DictGet(state, "turn", 1)
        cap == terminal_capacity(counts)
    IN  FirstOrEndTurn(<<
            _vp_pressure_fallback(game, coins, turn),
            If(coins >= BUY_PROVINCE_COINS /\ in_stock(game, "province"), "province"),
            If(/\ DictGet(counts, "remodel", 0) = 0 /\ coins >= BUY_4_COST_COINS
               /\ in_stock(game, "remodel"), "remodel"),
            If(/\ DictGet(counts, "gold", 0) < 2 /\ coins >= BUY_GOLD_COINS
               /\ in_stock(game, "gold"), "gold"),
            If(/\ DictGet(counts, "militia", 0) = 0 /\ coins >= BUY_4_COST_COINS
               /\ in_stock(game, "militia"), "militia"),
            If(/\ coins >= BUY_5_COST_COINS /\ DictGet(counts, "market", 0) < 4
               /\ in_stock(game, "market"), "market"),
            If(/\ DictGet(counts, "cellar", 0) = 0 /\ coins >= 2
               /\ in_stock(game, "cellar"), "cellar"),
            If(coins >= BUY_4_COST_COINS /\ in_stock(game, "village"), "village"),
            If(/\ coins >= BUY_5_COST_COINS /\ cap > 0
               /\ DictGet(counts, "smithy", 0) < MAX_SMITHIES
               /\ in_stock(game, "smithy"), "smithy"),
            If(coins >= BUY_GOLD_COINS /\ in_stock(game, "gold"), "gold"),
            If(coins >= BUY_SILVER_COINS /\ in_stock(game, "silver"), "silver") >>)

\* the "single terminal draw" loop of _combo_engine
ComboTerminalDraw(game, counts) ==
    LET ok == SelectSeq(<<"smithy", "councilroom", "library">>, LAMBDA c :
                  /\ in_stock(game, c)
                  /\ ~(c = "library" /\ DictGet(counts, "library", 0) >= 1))
    IN  IF ok # <<>> THEN Buy(ok[1]) ELSE None

\* the last-resort loop of _combo_engine
ComboLastResort(game, coins, counts, cap) ==
    LET ok == SelectSeq(<<"market", "laboratory", "festival", "village",
                          "farmingvillage", "port", "poacher", "smithy",
                          "councilroom", "library", "silver", "gold">>, LAMBDA c :
                  /\ in_stock(game, c) /\ coins >= DictGet(COSTS, c, 99)
                  /\ ~(c \in {"smithy", "councilroom", "library"} /\ cap <= 0)
                  /\ ~(c = "silver" /\ DictGet(counts, "silver", 0) >= 1))
    IN  IF ok # <<>> THEN Buy(ok[1]) ELSE None

_combo_engine(game, coins, me_idx, state) ==
    LET counts == state["counts"]
        turn == DictGet(state, "turn", 1)
        cap == terminal_capacity(counts)
        provinces_left == DictGet(game.stock, "province", 0)
        curses_left == DictGet(state, "curses_left", DictGet(game.stock, "curse", 0))
        opp_has_witch == DictGet(state, "opp_has_witch", FALSE)
        n(c) == DictGet(counts, c, 0)
        has(c) == in_stock(game, c)
        terminals == n("smithy") + n("witch") + n("militia") + n("bandit")
                     + n("bureaucrat") + n("chancellor") + n("councilroom")
                     + n("library") + n("adventurer")
        plus_actions == n("village") + n("market") + n("festival")
                        + n("farmingvillage") + n("port") + n("poacher")
                        + n("laboratory")
        deficit == Max2(0, terminals - plus_actions)
        engine_stable ==
            \/ n("market") + n("laboratory") + n("festival") >= 3
            \/ /\ n("village") + n("farmingvillage") + n("port") >= 2
               /\ n("smithy") + n("councilroom") + n("library") >= 1
        score == score_status(game, me_idx)
    IN  FirstOrEndTurn(<<
            If(/\ coins >= BUY_PROVINCE_COINS /\ has("province")
               /\ (\/ provinces_left <= 5 \/ engine_stable \/ turn >= 10
                   \/ (score[1] - score[2]) >= 6), "province"),
            If(/\ has("chapel") /\ n("chapel") < 1 /\ coins \in {2, 3, 4}
               /\ turn <= 2, "chapel"),
            If(/\ coins >= BUY_5_COST_COINS /\ has("witch") /\ opp_has_witch
               /\ curses_left > 0 /\ n("witch") < 2 /\ cap > 0, "witch"),
            IF deficit > 0 /\ coins >= BUY_4_COST_COINS
            THEN FirstStocked(game, <<"village", "farmingvillage", "port", "poacher">>)
            ELSE None,
            IF deficit > 0 /\ coins >= BUY_5_COST_COINS
            THEN FirstStocked(game, <<"market", "festival", "laboratory">>)
            ELSE None,
            IF coins >= BUY_5_COST_COINS
            THEN FirstStocked(game, <<"market", "laboratory", "festival">>)
            ELSE None,
            IF coins >= BUY_4_COST_COINS
            THEN FirstStocked(game, <<"poacher", "port", "village", "farmingvillage">>)
            ELSE None,
            IF cap > 0 /\ coins >= BUY_4_COST_COINS
            THEN ComboTerminalDraw(game, counts) ELSE None,
            If(/\ turn <= 3 /\ coins >= 3 /\ has("workshop") /\ n("workshop") < 1,
               "workshop"),
            If(/\ turn <= 4 /\ coins >= 4 /\ has("remodel") /\ n("remodel") < 1,
               "remodel"),
            If(/\ coins >= BUY_5_COST_COINS /\ has("bandit") /\ cap > 0
               /\ n("bandit") < 2 /\ (engine_stable \/ plus_actions >= 2), "bandit"),
            If(/\ coins >= BUY_GOLD_COINS /\ (plus_actions >= 2 \/ engine_stable)
               /\ has("gold"), "gold"),
            If(/\ coins \in {3, 4} /\ n("silver") < 1
               /\ ~(\/ /\ coins >= BUY_4_COST_COINS
                       /\ (\/ has("village") \/ has("farmingvillage")
                           \/ has("port") \/ has("poacher"))
                    \/ /\ coins >= BUY_5_COST_COINS
                       /\ (has("market") \/ has("laboratory") \/ has("festival")))
               /\ has("silver"), "silver"),
            ComboLastResort(game, coins, counts, cap) >>)

\* the keys of STRATEGY_BUYERS
StrategyKeys ==
    {"baseline", "bm_smithy", "village_smithy", "militia_market_counter",
     "remodel_market_engine", "combo_engine"}

\* STRATEGY_BUYERS[strategy_key](game, coins, me_idx, state)
STRATEGY_BUYERS(strategy_key, game, coins, me_idx, state) ==
    CASE strategy_key = "baseline" ->
             strategy_choose_buy_action(game, coins, me_idx, state)
      [] strategy_key = "bm_smithy" -> _bm_smithy(game, coins, me_idx, state)
      [] strategy_key = "village_smithy" -> _village_smithy(game, coins, me_idx, state)
      [] strategy_key = "militia_market_counter" ->
             _militia_market_counter(game, coins, me_idx, state)
      [] strategy_key = "remodel_market_engine" ->
             _remodel_market_engine(game, coins, me_idx, state)
      [] strategy_key = "combo_engine" -> _combo_engine(game, coins, me_idx, state)

\* STRATEGY_BUYERS.get(strategy_key, pipeline.choose_buy_action)(...)
choose_buy_action_for_strategy(strategy_key, game, coins, me_idx, state) ==
    IF strategy_key \in StrategyKeys
    THEN STRATEGY_BUYERS(strategy_key, game, coins, me_idx, state)
    ELSE strategy_choose_buy_action(game, coins, me_idx, state)

-----------------------------------------------------------------------------
(* The snapshots the game server sends *)

Hand(q) == [present |-> TRUE, quantities |-> q]
NoHand == [present |-> FALSE, quantities |-> EmptyDict]

Me(q) == [name |-> <<"[bot]", TEAM_NAME>>, hand |-> Hand(q), score |-> 0]
Opponent(score) == [name |-> <<"rival">>, hand |-> NoHand, score |-> score]

Snapshot(players, stock) == [players |-> players, stock |-> stock]

\* the snapshots of the decision requests of the state machine
Hands ==
    { [copper |-> 2],
      [gold |-> 2, silver |-> 1],
      [market |-> 1, gold |-> 2],
      [village |-> 1, smithy |-> 1, silver |-> 1],
      [smithy |-> 1, copper |-> 2] }

Stocks ==
    { [province |-> 8, gardens |-> 8, market |-> 10, gold |-> 10, silver |-> 10],
      [province |-> 2, duchy |-> 8, gold |-> 10] }

Snapshots ==
    {Snapshot(<<Opponent(0), Me(q)>>, stock) : q \in Hands, stock \in Stocks}
    \cup {Snapshot(<<>>, EmptyDict)}

\* the wider set of snapshots every reachable record is tried against
FuzzHands ==
    Hands \cup
    { [copper |-> 3],
      [copper |-> 2, silver |-> 1],
      [silver |-> 1, gold |-> 1],
      [gold |-> 2],
      [chapel |-> 1, estate |-> 1, woodcutter |-> 1, militia |-> 0],
      [laboratory |-> 1, gold |-> 2, silver |-> 1] }

FuzzStocks ==
    Stocks \cup
    { EmptyDict,
      [province |-> 8, duchy |-> 8, estate |-> 8, gold |-> 10, silver |-> 10,
       copper |-> 10, curse |-> 10],
      [province |-> 8, gardens |-> 8, village |-> 10, smithy |-> 10, gold |-> 0,
       chapel |-> 10, estate |-> 8],
      [province |-> 4, duchy |-> 8, witch |-> 10, curse |-> 10, laboratory |-> 10,
       moneylender |-> 10, silver |-> 10],
      [province |-> 12, hireling |-> 10, distantshore |-> 10, festival |-> 10,
       workshop |-> 10, gold |-> 10] }

\* supplies in which a trailing player is offered a Duchy
DuchyStocks == {stock \in FuzzStocks : DictGet(stock, "duchy", 0) > 0}

FuzzSnapshots ==
    {Snapshot(<<Opponent(0), Me(q)>>, stock) : q \in FuzzHands, stock \in FuzzStocks}
    \cup {Snapshot(<<Opponent(6), Me(q)>>, stock) : q \in FuzzHands, stock \in DuchyStocks}
    \cup {Snapshot(<<>>, stock) : stock \in {EmptyDict, [gardens |-> 8, province |-> 8]}}

-----------------------------------------------------------------------------
(* The state machine.  TURN_STATE is the store; last records the request   *)
(* just served and its answer.  hist[m] records, for the current turn of   *)
(* match m, the number of BUY decisions returned and whether a BUY or      *)
(* END_TURN decision was returned (the BUY phase was entered).             *)

MatchIds == {"g1", "g2"}

NewTurn == [buys |-> 0, left |-> FALSE]

Last(op, id, decision) == [op |-> op, id |-> id, decision |-> decision]

OK == <<"OK">>

Init ==
    /\ TURN_STATE = EmptyDict
    /\ DEFAULT_STRATEGY = "baseline"
    /\ last = Last("init", "", OK)
    /\ hist = [m \in MatchIds |-> NewTurn]

Owned(state) == SumOver(state["counts"], DOMAIN state["counts"])

Bounded(state) ==
    /\ DictGet(state, "actions_left", 1) <= MaxActionsLeft
    /\ DictGet(state, "action_coins", 0) <= MaxActionCoins
    /\ DictGet(state, "extra_buys", 0) <= MaxExtraBuys

IsBuy(decision) == decision[1] = "BUY"
IsAction(decision) == decision[1] = "ACTION"
LeavesAction(decision) == decision[1] \in {"BUY", "END_TURN"}

StartTurn(m) ==
    \E state \in {_get_state(TURN_STATE, m)} :
        /\ DictGet(state, "turn", 0) < MaxTurn
        /\ TURN_STATE' = DictPut(Touch(TURN_STATE, m), m, start_turn(state))
        /\ last' = Last("start_turn", m, OK)
        /\ hist' = [hist EXCEPT ![m] = NewTurn]
        /\ UNCHANGED DEFAULT_STRATEGY

Play(m, game) ==
    \E out \in {play(_get_state(TURN_STATE, m), game)} :
        /\ Bounded(out.state)
        /\ IsBuy(out.decision) => Owned(out.state) <= MaxBought
        /\ TURN_STATE' = DictPut(Touch(TURN_STATE, m), m, out.state)
        /\ last' = Last("play", m, out.decision)
        /\ hist' = [hist EXCEPT ![m] =
               [buys |-> @.buys + (IF IsBuy(out.decision) THEN 1 ELSE 0),
                left |-> @.left \/ LeavesAction(out.decision)]]
        /\ UNCHANGED DEFAULT_STRATEGY

EndGame(m) ==
    /\ TURN_STATE' = end_game(TURN_STATE, m)
    /\ last' = Last("end_game", m, OK)
    /\ hist' = [hist EXCEPT ![m] = NewTurn]
    /\ UNCHANGED DEFAULT_STRATEGY

\* one match, every snapshot
Next ==
    \/ StartTurn("g1")
    \/ \E game \in Snapshots : Play("g1", game)
    \/ EndGame("g1")

Spec == Init /\ [][Next]_vars

\* one match under the scheduling of the game server, which keeps sending
\* requests: the machine does not stop while a request can be served
LiveSnapshots ==
    {Snapshot(<<Opponent(0), Me(q)>>,
              [province |-> 8, gardens |-> 8, market |-> 10, gold |-> 10, silver |-> 10]) :
         q \in { [copper |-> 2],
                 [market |-> 1, gold |-> 2],
                 [village |-> 1, silver |-> 1],
                 [smithy |-> 1, silver |-> 1] }}

NextLive ==
    \/ EndGame("g1")
    \/ StartTurn("g1")
    \/ \E game \in LiveSnapshots : Play("g1", game)

SpecLive == Init /\ [][NextLive]_vars /\ WF_vars(NextLive)

\* two matches served by the same process
PairSnapshots ==
    { Snapshot(<<Opponent(0), Me([smithy |-> 1, gold |-> 2])>>,
               [province |-> 8, gardens |-> 8, market |-> 10, gold |-> 10]),
      Snapshot(<<Opponent(0), Me([silver |-> 2])>>,
               [province |-> 2, duchy |-> 8, silver |-> 10]) }

NextPair ==
    \E m \in MatchIds :
        \/ StartTurn(m)
        \/ \E game \in PairSnapshots : Play(m, game)
        \/ EndGame(m)

SpecPair == Init /\ [][NextPair]_vars

\* records at the start of a later turn: the turn counter after that many
\* turn-starts, cards the buy pipeline hands out, and a decided gardens_plan
\* wherever a card was bought (every purchase goes through /play)
Record(turn, counts, plan) ==
    start_turn([bought |-> TRUE, counts |-> counts, turn |-> turn - 1,
                gardens_plan |-> plan])

LaterTurns ==
    { Record(4, [silver |-> 2, smithy |-> 1], FALSE),
      Record(4, [village |-> 1, gardens |-> 1], TRUE),
      Record(14, [gold |-> 2, laboratory |-> 3, province |-> 2], FALSE),
      Record(20, [silver |-> 3, smithy |-> 2, province |-> 2], FALSE),
      Record(145, [market |-> 2, gold |-> 1], TRUE) }

InitLater ==
    /\ TURN_STATE \in {EmptyDict} \cup {[g1 |-> r] : r \in LaterTurns}
    /\ DEFAULT_STRATEGY = "baseline"
    /\ last = Last("init", "", OK)
    /\ hist = [m \in MatchIds |-> NewTurn]

\* the requests on the first supply, and those whose hand buys a Province
LaterSnapshots ==
    {game \in Snapshots :
         \/ _in_stock(game, "silver")
         \/ /\ game.players # <<>>
            /\ _compute_treasure_coins(game, _find_me(game)) >= BUY_PROVINCE_COINS}

NextLater == \E game \in LaterSnapshots : Play("g1", game)

\* the requests of one turn, from the start of an early or a later turn
SpecLater == InitLater /\ [][NextLater]_vars

\* the configuration route and the match-start route next to the decision
\* routes of one match
StrategyNames == {"Combo_Engine", " bm_smithy ", "baseline"}

RequestHeaders == {EmptyDict, "x-strategy" :> "village_smithy"}

ChangeStrategy(strategy_name) ==
    /\ DEFAULT_STRATEGY' = change_strategy(strategy_name)
    /\ last' = Last("change_strategy", "", OK)
    /\ UNCHANGED <<TURN_STATE, hist>>

\* last.strategy is the x-strategy header the handler was given
StartGame(m, headers) ==
    /\ TURN_STATE' = start_game(TURN_STATE, m)
    /\ last' = [op |-> "start_game", id |-> m, decision |-> OK,
                strategy |->
                    inject_default_strategy(headers, DEFAULT_STRATEGY)["x-strategy"]]
    /\ UNCHANGED <<DEFAULT_STRATEGY, hist>>

NextStrategy ==
    \/ \E strategy_name \in StrategyNames : ChangeStrategy(strategy_name)
    \/ \E headers \in RequestHeaders : StartGame("g1", headers)
    \/ StartTurn("g1")
    \/ \E game \in LiveSnapshots : Play("g1", game)
    \/ EndGame("g1")

SpecStrategy == Init /\ [][NextStrategy]_vars

\* The functions of app/strategy applied to drawn inputs: the record of
\* match g1 is drawn at Init, and one call of one function is made on it
\* and on a drawn snapshot, coin amount and strategy key; the call and its
\* result are recorded in last
MaxCoins == 8

\* the seat of the caller in the snapshots below
Seat == 1

BuyRecords ==
    { Record(1, EmptyDict, FALSE),
      Record(8, [gold |-> 0], FALSE),
      Record(12, [gold |-> 2], FALSE),
      Record(15, [province |-> 2, silver |-> 1], FALSE),
      DictPut(Record(5, [village |-> 1], TRUE), "extra_buys", 1),
      Record(5, [village |-> 1, silver |-> 1], TRUE),
      Record(18, [silver |-> 1, smithy |-> 1], TRUE),
      DictPut(Record(6, [market |-> 1], FALSE), "actions_left", 2),
      Record(145, [market |-> 2, gold |-> 1], FALSE) }

BuyStocks ==
    { EmptyDict,
      [province |-> 8, gold |-> 10],
      [province |-> 12, gold |-> 10],
      [province |-> 8, gold |-> 10, silver |-> 10, copper |-> 10, market |-> 10],
      [copper |-> 10, curse |-> 10],
      [province |-> 8, councilroom |-> 10],
      [province |-> 2, duchy |-> 8, estate |-> 8, silver |-> 10, smithy |-> 10,
       village |-> 10],
      [province |-> 8, gardens |-> 8, militia |-> 10, cellar |-> 10,
       laboratory |-> 10, witch |-> 10, curse |-> 10, hireling |-> 10] }

BuySnapshots ==
    {Snapshot(<<Opponent(0), Me(EmptyDict)>>, stock) : stock \in BuyStocks}
    \cup {Snapshot(<<Opponent(6), Me(EmptyDict)>>,
                   [province |-> 8, duchy |-> 8, gold |-> 10])}

ActionHands ==
    { [chapel |-> 1, estate |-> 1, village |-> 1],
      [chapel |-> 1, copper |-> 1, market |-> 1, smithy |-> 1],
      [chapel |-> 1, curse |-> 1, militia |-> 1, woodcutter |-> 1, workshop |-> 1],
      [chapel |-> 1, village |-> 1, gold |-> 1],
      [remodel |-> 1, village |-> 1],
      [moneylender |-> 1, silver |-> 1, festival |-> 1],
      [market |-> 1],
      [militia |-> 1, smithy |-> 1, woodcutter |-> 1],
      [smithy |-> 1, woodcutter |-> 1, workshop |-> 1],
      [woodcutter |-> 1, mine |-> 1],
      [workshop |-> 1, copper |-> 2],
      [moneylender |-> 1, copper |-> 1],
      [councilroom |-> 1, gold |-> 1],
      [copper |-> 3, estate |-> 2] }

ActionSnapshots ==
    {Snapshot(<<Opponent(0), Me(q)>>, EmptyDict) : q \in ActionHands}

StrategyArguments == StrategyKeys \cup {"big_money", ""}

InitBuy ==
    /\ TURN_STATE \in {[g1 |-> r] : r \in BuyRecords}
    /\ DEFAULT_STRATEGY = "baseline"
    /\ last = Last("init", "", OK)
    /\ hist = [m \in MatchIds |-> NewTurn]

Call(op, id, decision, game, coins) ==
    [op |-> op, id |-> id, decision |-> decision, game |-> game, coins |-> coins]

ChooseBuyAction(game, coins) ==
    /\ last.op = "init"
    /\ last' = Call("choose_buy_action", "",
                    strategy_choose_buy_action(game, coins, Seat, TURN_STATE["g1"]),
                    game, coins)
    /\ UNCHANGED <<TURN_STATE, DEFAULT_STRATEGY, hist>>

ChooseBuyActionForStrategy(strategy_key, game, coins) ==
    /\ last.op = "init"
    /\ last' = Call("choose_buy_action_for_strategy", strategy_key,
                    choose_buy_action_for_strategy(strategy_key, game, coins, Seat,
                                                   TURN_STATE["g1"]),
                    game, coins)
    /\ UNCHANGED <<TURN_STATE, DEFAULT_STRATEGY, hist>>

\* the gate on the record's counts and turn and the snapshot's Province
\* pile and score gap; the decision is <<TRUE>> or <<FALSE>>
EarlyProvinceOk(game) ==
    /\ last.op = "init"
    /\ last' = Call("early_province_ok", "",
                    <<early_province_ok(TURN_STATE["g1"]["counts"],
                                        DictGet(game.stock, "province", 0),
                                        TURN_STATE["g1"]["turn"],
                                        score_status(game, Seat)[1]
                                            - score_status(game, Seat)[2])>>,
                    game, 0)
    /\ UNCHANGED <<TURN_STATE, DEFAULT_STRATEGY, hist>>

\* the selector mutates the record it is given
ChooseAction(game) ==
    \E pick \in {strategy_choose_action(game, Seat, TURN_STATE["g1"])} :
        /\ last.op = "init"
        /\ last' = Call("choose_action", "", pick.decision, game, 0)
        /\ TURN_STATE' = [TURN_STATE EXCEPT !["g1"] = pick.state]
        /\ UNCHANGED <<DEFAULT_STRATEGY, hist>>

\* the selector of app/routers/game.py on the same hands and records
RouterChooseAction(game) ==
    \E pick \in {choose_action(game, Seat, TURN_STATE["g1"])} :
        /\ last.op = "init"
        /\ last' = Call("game.choose_action", "", pick.decision, game, 0)
        /\ TURN_STATE' = [TURN_STATE EXCEPT !["g1"] = pick.state]
        /\ UNCHANGED <<DEFAULT_STRATEGY, hist>>

NextBuy ==
    \/ \E game \in BuySnapshots, coins \in 0..MaxCoins : ChooseBuyAction(game, coins)
    \/ \E strategy_key \in StrategyArguments, game \in BuySnapshots,
           coins \in 0..MaxCoins :
            ChooseBuyActionForStrategy(strategy_key, game, coins)
    \/ \E game \in BuySnapshots : EarlyProvinceOk(game)
    \/ \E game \in ActionSnapshots : ChooseAction(game)
    \/ \E game \in ActionSnapshots : RouterChooseAction(game)

SpecBuy == InitBuy /\ [][NextBuy]_vars

-----------------------------------------------------------------------------
(* Card choices of app/routers/game.py: a hand or a candidate list is a    *)
(* sequence of card names; a choice is <<card>>, and ERROR where the code  *)
(* raises                                                                  *)

\* defaultdict(lambda: 0, {...}): a card without an entry has priority 0
CARD_PRIORITY ==
    [province |-> 100, gold |-> 80, laboratory |-> 70, market |-> 62,
     festival |-> 58, smithy |-> 55, village |-> 40, duchy |-> 35,
     gardens |-> 32, silver |-> 30, estate |-> 10, copper |-> 5]

JUNK == {"estate", "curse"}

\* the order of Python's str comparison on the card names drawn below
NameOrder ==
    <<"copper", "curse", "estate", "gold", "militia", "silver", "village", "witch">>

NameRank(c) == CHOOSE i \in 1..Len(NameOrder) : NameOrder[i] = c

\* Python's comparison of two pairs of integers
TupleLess(a, b) == a[1] < b[1] \/ (a[1] = b[1] /\ a[2] < b[2])

\* sorted(xs, key=...): stable, ascending in key
RECURSIVE sorted(_, _)
sorted(xs, key) ==
    IF xs = <<>> THEN <<>>
    ELSE LET x == xs[Len(xs)]
             front == sorted(SubSeq(xs, 1, Len(xs) - 1), key)
             after == {i \in 1..Len(front) : TupleLess(key[x], key[front[i]])}
             at == IF after = {} THEN Len(front) + 1
                   ELSE CHOOSE i \in after : \A j \in after : i <= j
         IN  SubSeq(front, 1, at - 1) \o <<x>> \o SubSeq(front, at, Len(front))

Elements(xs) == {xs[i] : i \in 1..Len(xs)}

_best_from_unranked(options) ==
    IF options = <<>> THEN ERROR ELSE <<options[1]>>

_best_from(options) ==
    LET key == [c \in Elements(options) |->
                    <<0 - DictGet(CARD_PRIORITY, c, 0), NameRank(c)>>]
        s == sorted(options, key)
    IN  IF s = <<>> THEN ERROR ELSE <<s[1]>>

_worst_in_hand_unbucketed(hand) ==
    LET score == [c \in Elements(hand) |-> <<2, DictGet(CARD_PRIORITY, c, 0)>>]
        s == sorted(hand, score)
    IN  IF s = <<>> THEN ERROR ELSE <<s[1]>>

_worst_in_hand(hand) ==
    LET score == [c \in Elements(hand) |->
                    IF c \in JUNK THEN <<0, DictGet(CARD_PRIORITY, c, 0)>>
                    ELSE IF c = "copper" THEN <<1, DictGet(CARD_PRIORITY, c, 0)>>
                    ELSE <<2, DictGet(CARD_PRIORITY, c, 0)>>]
        s == sorted(hand, score)
    IN  IF s = <<>> THEN ERROR ELSE <<s[1]>>

discard_card_from_hand(hand) == _worst_in_hand(hand)
trash_card_from_hand(hand) == _worst_in_hand(hand)
choose_card_to_receive_in_discard(possible_cards) == _best_from(possible_cards)
choose_card_to_receive_in_deck(possible_cards) == _best_from(possible_cards)

(* worst_in_hand of app/strategy/utils.py on a dict of hand counts: the    *)
(* dict is a sequence of <<name, count>> pairs in insertion order          *)

\* str(k).lower() on the names drawn below
lower(k) ==
    CASE k = "Copper" -> "copper"
      [] k = "Estate" -> "estate"
      [] OTHER -> k

\* {str(k).lower(): int(v) for k, v in source.items()}
RECURSIVE LoweredCounts(_)
LoweredCounts(source) ==
    IF source = <<>> THEN <<>>
    ELSE LET rest == LoweredCounts(SubSeq(source, 1, Len(source) - 1))
             k == lower(source[Len(source)][1])
             v == source[Len(source)][2]
             at == {i \in 1..Len(rest) : rest[i][1] = k}
         IN  IF at # {} THEN [rest EXCEPT ![CHOOSE i \in at : TRUE] = <<k, v>>]
             ELSE Append(rest, <<k, v>>)

WorstScores(policy) ==
    LET base == [curse |-> -100, estate |-> -50, copper |-> -40,
                 chancellor |-> -20, woodcutter |-> -18, bureaucrat |-> -16,
                 poacher |-> -14, militia |-> -12, silver |-> -10, cellar |-> 0,
                 village |-> 5, smithy |-> 6, market |-> 8, laboratory |-> 10,
                 festival |-> 10, gold |-> 12, province |-> 50, duchy |-> 30,
                 estate_vp |-> 5]
        softer == {"curse", "estate", "copper", "chancellor", "woodcutter",
                   "bureaucrat", "poacher", "militia"}
    IN  IF policy = "remodel" THEN [base EXCEPT !["curse"] = -30]
        ELSE IF policy = "discard"
        THEN [k \in DOMAIN base |-> IF k \in softer THEN base[k] - 5 ELSE base[k]]
        ELSE base

worst_in_hand(source, policy) ==
    LET q == LoweredCounts(source)
        score == WorstScores(policy)
        held == {i \in 1..Len(q) : q[i][2] > 0}
        val(i) == DictGet(score, q[i][1], 0)
        least == {i \in held : \A j \in held : val(i) <= val(j)}
    IN  IF q = <<>> \/ held = {} THEN None
        ELSE <<q[CHOOSE i \in least : \A j \in least : i <= j][1]>>

-----------------------------------------------------------------------------
(* The helpers above called on drawn inputs: each behaviour makes one call *)
(* and records it, with its argument and its result, in last               *)
MaxHand == 3
MaxOwned == 2
MaxPlayers == 3

CardNames == {"copper", "curse", "estate", "gold", "militia", "silver", "witch"}

CardLists == UNION {[1..n -> CardNames] : n \in 0..MaxHand}

HandCounts ==
    { <<>>,
      <<<<"estate", 1>>, <<"copper", 1>>, <<"village", 1>>>>,
      <<<<"village", 1>>, <<"cellar", 0>>>>,
      <<<<"Copper", 2>>, <<"gold", 1>>, <<"copper", 0>>>>,
      <<<<"festival", 1>>, <<"laboratory", 1>>>>,
      <<<<"witch", 1>>, <<"cellar", 1>>>>,
      <<<<"curse", 1>>, <<"copper", 1>>, <<"militia", 1>>>>,
      <<<<"silver", 0>>>> }

Policies == {"trash", "remodel", "discard"}

CountMaps ==
    {EmptyDict,
     [village |-> 1, market |-> 0, festival |-> 0, laboratory |-> 0, smithy |-> 1,
      woodcutter |-> 0]}
    \cup {[village |-> v, smithy |-> s, port |-> p, moneylender |-> m] :
              v \in 0..MaxOwned, s \in 0..MaxOwned, p \in 0..1, m \in 0..1}

PlayerKinds ==
    { Me(EmptyDict), [Me(EmptyDict) EXCEPT !.hand = NoHand],
      Opponent(0), [Opponent(0) EXCEPT !.hand = Hand([copper |-> 1])] }

PlayerLists == UNION {[1..n -> PlayerKinds] : n \in 0..MaxPlayers}

ChooseCardToReceiveInDiscard(possible_cards) ==
    /\ last.op = "init"
    /\ last' = Call("choose_card_to_receive_in_discard", "",
                    choose_card_to_receive_in_discard(possible_cards),
                    possible_cards, 0)
    /\ UNCHANGED <<TURN_STATE, DEFAULT_STRATEGY, hist>>

ChooseCardToReceiveInDeck(possible_cards) ==
    /\ last.op = "init"
    /\ last' = Call("choose_card_to_receive_in_deck", "",
                    choose_card_to_receive_in_deck(possible_cards),
                    possible_cards, 0)
    /\ UNCHANGED <<TURN_STATE, DEFAULT_STRATEGY, hist>>

DiscardCardFromHand(hand) ==
    /\ last.op = "init"
    /\ last' = Call("discard_card_from_hand", "", discard_card_from_hand(hand),
                    hand, 0)
    /\ UNCHANGED <<TURN_STATE, DEFAULT_STRATEGY, hist>>

TrashCardFromHand(hand) ==
    /\ last.op = "init"
    /\ last' = Call("trash_card_from_hand", "", trash_card_from_hand(hand), hand, 0)
    /\ UNCHANGED <<TURN_STATE, DEFAULT_STRATEGY, hist>>

WorstInHand(source, policy) ==
    /\ last.op = "init"
    /\ last' = Call("worst_in_hand", policy, worst_in_hand(source, policy), source, 0)
    /\ UNCHANGED <<TURN_STATE, DEFAULT_STRATEGY, hist>>

TerminalCapacity(counts) ==
    /\ last.op = "init"
    /\ last' = Call("terminal_capacity", "", <<terminal_capacity(counts)>>, counts, 0)
    /\ UNCHANGED <<TURN_STATE, DEFAULT_STRATEGY, hist>>

FindMe(players) ==
    /\ last.op = "init"
    /\ last' = Call("_find_me", "", <<_find_me(Snapshot(players, EmptyDict))>>,
                    players, 0)
    /\ UNCHANGED <<TURN_STATE, DEFAULT_STRATEGY, hist>>

NextCards ==
    \/ \E possible_cards \in CardLists : ChooseCardToReceiveInDiscard(possible_cards)
    \/ \E possible_cards \in CardLists : ChooseCardToReceiveInDeck(possible_cards)
    \/ \E hand \in CardLists : DiscardCardFromHand(hand)
    \/ \E hand \in CardLists : TrashCardFromHand(hand)
    \/ \E source \in HandCounts, policy \in Policies : WorstInHand(source, policy)
    \/ \E counts \in CountMaps : TerminalCapacity(counts)
    \/ \E players \in PlayerLists : FindMe(players)

SpecCards == Init /\ [][NextCards]_vars

-----------------------------------------------------------------------------
(* The state store of app/strategy/state.py with the action selector of    *)
(* app/strategy/actions.py: turns of one match, each started by            *)
(* reset_for_new_turn and followed by choose_action calls on the record    *)

\* the record the defaultdict factory of strategy/state.py builds
StrategyDefaultState ==
    [turn |-> 1, phase |-> "ACTION", bought |-> FALSE, counts |-> EmptyDict,
     action_coins |-> 0, extra_buys |-> 0, coins_left |-> 0, buys_left |-> 1,
     initialized_resources |-> FALSE]

\* TURN_STATE[game_id]: the store after the access
get_state(store, game_id) == DictSetDefault(store, game_id, StrategyDefaultState)

reset_for_new_turn(store, game_id) ==
    LET st == get_state(store, game_id)[game_id]
        s1 == DictPut(st, "turn", DictGet(st, "turn", 1) + 1)
        s2 == DictPut(s1, "phase", "ACTION")
        s3 == DictPut(s2, "bought", FALSE)
        s4 == DictPut(s3, "action_coins", 0)
        s5 == DictPut(s4, "extra_buys", 0)
        s6 == DictPut(s5, "coins_left", 0)
        s7 == DictPut(s6, "buys_left", 1)
        s8 == DictPut(s7, "initialized_resources", FALSE)
    IN  DictPut(get_state(store, game_id), game_id, s8)

ResetForNewTurn(m) ==
    /\ DictGet(get_state(TURN_STATE, m)[m], "turn", 1) <= MaxTurn
    /\ TURN_STATE' = reset_for_new_turn(TURN_STATE, m)
    /\ last' = Last("reset_for_new_turn", m, OK)
    /\ UNCHANGED <<DEFAULT_STRATEGY, hist>>

StoreChooseAction(m, game) ==
    \E pick \in {strategy_choose_action(game, Seat, get_state(TURN_STATE, m)[m])} :
        /\ Bounded(pick.state)
        /\ TURN_STATE' = DictPut(get_state(TURN_STATE, m), m, pick.state)
        /\ last' = Last("choose_action", m, pick.decision)
        /\ UNCHANGED <<DEFAULT_STRATEGY, hist>>

NextStore ==
    \/ ResetForNewTurn("g1")
    \/ \E game \in ActionSnapshots : StoreChooseAction("g1", game)

SpecStore == Init /\ [][NextStore]_vars

-----------------------------------------------------------------------------
(* Properties *)

Has(m) == m \in DOMAIN TURN_STATE
Field(m, k, default) == DictGet(TURN_STATE[m], k, default)

\* C1: whatever record the store holds and whatever snapshot a /play request
\* carries, a BUY c it returns names a card the snapshot's supply still
\* holds, whose cost is at most the treasure coins of the snapshot's hand
\* plus the record's action_coins, while the record's buys_left plus
\* extra_buys is positive
C1_BuyIsLegal ==
    \A m \in DOMAIN TURN_STATE : \A game \in FuzzSnapshots :
        \A state \in {_get_state(TURN_STATE, m)} :
            \A out \in {play(state, game)} :
                IsBuy(out.decision) =>
                    /\ DictGet(game.stock, CardOf(out.decision), 0) > 0
                    /\ CardOf(out.decision) \in DOMAIN COSTS
                    /\ COSTS[CardOf(out.decision)]
                         <= _compute_treasure_coins(game, _find_me(game))
                            + DictGet(state, "action_coins", 0)
                    /\ DictGet(state, "buys_left", 1) + DictGet(state, "extra_buys", 0) > 0

\* a BUY was answered from a record whose turn is past the opening
C1_Witness ==
    /\ last.op = "play" /\ IsBuy(last.decision)
    /\ Has("g1") /\ Field("g1", "turn", 1) > OPENING_TURN_LIMIT

\* C2: in a started turn the number of BUY decisions returned so far is at
\* most 1 + extra_buys, the buy bonuses of the actions played in the turn
C2_BuysWithinAllowance ==
    \A m \in MatchIds :
        (Has(m) /\ "turn" \in DOMAIN TURN_STATE[m]) =>
            hist[m].buys <= 1 + Field(m, "extra_buys", 0)

\* C3: in a started turn whose BUY phase was already entered, a card bought
\* by a later request costs at most the coins_left the record holds: the
\* coins computed at BUY-phase entry less the cost of the cards bought since
C3_LaterBuysWithinCoinsLeft ==
    [][\A m \in MatchIds :
          (/\ Has(m) /\ "turn" \in DOMAIN TURN_STATE[m] /\ hist[m].left
           /\ last'.op = "play" /\ last'.id = m /\ IsBuy(last'.decision)) =>
              DictGet(COSTS, CardOf(last'.decision), 0) <= Field(m, "coins_left", 0)]_vars

\* C4: a record whose phase is BUY goes back to ACTION only by a turn-start,
\* and a /play request of a turn that has already been answered BUY or
\* END_TURN is never answered ACTION
C4_NoPhaseRegression ==
    [][\A m \in MatchIds :
          /\ (/\ Has(m) /\ Field(m, "phase", "ACTION") = "BUY"
              /\ m \in DOMAIN TURN_STATE'
              /\ DictGet(TURN_STATE'[m], "phase", "ACTION") = "ACTION")
             => (last'.op = "start_turn" /\ last'.id = m)
          /\ (last'.op = "play" /\ last'.id = m /\ hist[m].left)
             => ~IsAction(last'.decision)]_vars

\* a request served after the turn's action cards were played and its BUY
\* phase was entered
C4_Witness ==
    /\ last.op = "play" /\ last.decision = END_TURN
    /\ hist["g1"].left /\ hist["g1"].buys >= 1
    /\ Has("g1") /\ Field("g1", "extra_buys", 0) >= 1

CountsOf(store, m) == IF m \in DOMAIN store THEN store[m]["counts"] ELSE EmptyDict

\* C6: while a match lasts, a request answered BUY c raises counts[c] by
\* exactly 1 and changes no other entry; every other request and every
\* turn-start leave counts as they were
C6_CountsOnlyGrowByBuys ==
    [][\A m \in MatchIds :
          (~(last'.op = "end_game" /\ last'.id = m) /\ m \in DOMAIN TURN_STATE') =>
              IF last'.op = "play" /\ last'.id = m /\ IsBuy(last'.decision)
              THEN CountsOf(TURN_STATE', m)
                     = DictPut(CountsOf(TURN_STATE, m), CardOf(last'.decision),
                               DictGet(CountsOf(TURN_STATE, m),
                                       CardOf(last'.decision), 0) + 1)
              ELSE CountsOf(TURN_STATE', m) = CountsOf(TURN_STATE, m)]_vars

\* the same card was bought a second time
C6_Witness ==
    /\ last.op = "play" /\ IsBuy(last.decision)
    /\ Has("g1") /\ DictGet(TURN_STATE["g1"]["counts"], CardOf(last.decision), 0) >= 2

C8_StartTurnResets ==
    [][\A m \in MatchIds :
          (last'.op = "start_turn" /\ last'.id = m) =>
              /\ m \in DOMAIN TURN_STATE'
              /\ DictGet(TURN_STATE'[m], "phase", "") = "ACTION"
              /\ DictGet(TURN_STATE'[m], "actions_left", -1) = 1
              /\ DictGet(TURN_STATE'[m], "action_coins", -1) = 0
              /\ DictGet(TURN_STATE'[m], "extra_buys", -1) = 0
              /\ DictGet(TURN_STATE'[m], "buys_left", -1) = 1
              /\ DictGet(TURN_STATE'[m], "coins_left", -1) = 0
              /\ DictGet(TURN_STATE'[m], "bought", TRUE) = FALSE
              /\ DictGet(TURN_STATE'[m], "turn", -1)
                   = (IF Has(m) THEN Field(m, "turn", 0) ELSE 0) + 1
              /\ CountsOf(TURN_STATE', m) = CountsOf(TURN_STATE, m)
              /\ IF Has(m) /\ "gardens_plan" \in DOMAIN TURN_STATE[m]
                 THEN /\ "gardens_plan" \in DOMAIN TURN_STATE'[m]
                      /\ TURN_STATE'[m]["gardens_plan"] = TURN_STATE[m]["gardens_plan"]
                 ELSE "gardens_plan" \notin DOMAIN TURN_STATE'[m]]_vars

\* a turn-start that followed a turn with an action played and a card bought
C8_Witness ==
    /\ last.op = "start_turn" /\ Has("g1")
    /\ Owned(TURN_STATE["g1"]) >= 1
    /\ "gardens_plan" \in DOMAIN TURN_STATE["g1"]

\* C9: a match-end for m removes m's record and nothing else; no request
\* for m touches the record of another match; and the first request for m
\* after that starts from the default record: turn counter 1 after a
\* turn-start, no card counted but the one just bought, gardens_plan
\* undecided until a /play request decides it
C9_EndGameIsolated ==
    [][/\ last'.op = "end_game" =>
              TURN_STATE' = [k \in DOMAIN TURN_STATE \ {last'.id} |-> TURN_STATE[k]]
       /\ \A k \in MatchIds \ {last'.id} :
              /\ k \in DOMAIN TURN_STATE' <=> k \in DOMAIN TURN_STATE
              /\ k \in DOMAIN TURN_STATE => TURN_STATE'[k] = TURN_STATE[k]
       /\ \A m \in MatchIds :
              (~Has(m) /\ last'.id = m /\ last'.op = "start_turn") =>
                  /\ TURN_STATE'[m]["turn"] = 1
                  /\ TURN_STATE'[m]["counts"] = EmptyDict
                  /\ "gardens_plan" \notin DOMAIN TURN_STATE'[m]
       /\ \A m \in MatchIds :
              (~Has(m) /\ last'.id = m /\ last'.op = "play") =>
                  /\ "turn" \notin DOMAIN TURN_STATE'[m]
                  /\ TURN_STATE'[m]["counts"]
                       = IF IsBuy(last'.decision)
                         THEN DictPut(EmptyDict, CardOf(last'.decision), 1)
                         ELSE EmptyDict]_vars

\* one match ended while the other holds a record with a card bought
C9_Witness ==
    /\ last.op = "end_game" /\ last.id = "g1" /\ ~Has("g1")
    /\ Has("g2") /\ Owned(TURN_STATE["g2"]) >= 1

\* C10: once a record holds gardens_plan, every request and turn-start
\* that keeps the record keeps that value
C10_GardensPlanDecidedOnce ==
    [][\A m \in MatchIds :
          (/\ Has(m) /\ "gardens_plan" \in DOMAIN TURN_STATE[m]
           /\ ~(last'.op = "end_game" /\ last'.id = m)) =>
              /\ m \in DOMAIN TURN_STATE'
              /\ "gardens_plan" \in DOMAIN TURN_STATE'[m]
              /\ TURN_STATE'[m]["gardens_plan"] = TURN_STATE[m]["gardens_plan"]]_vars

\* the plan was decided for Gardens and a later request, whose supply holds
\* no Gardens, was answered with a Duchy
C10_Witness ==
    /\ Has("g1") /\ DictGet(TURN_STATE["g1"], "gardens_plan", FALSE) = TRUE
    /\ last.op = "play" /\ last.decision = Buy("duchy")

\* C11: a match-start leaves in the match's record, under "strategy", the
\* x-strategy header the handler was given (the client's, else the
\* process-wide default), and no other request changes the stored key
C11_StrategyFixedAtStart ==
    [][\A m \in MatchIds :
          /\ (last'.op = "start_game" /\ last'.id = m) =>
                 /\ m \in DOMAIN TURN_STATE'
                 /\ DictGet(TURN_STATE'[m], "strategy", "") = last'.strategy
          /\ (/\ last'.op \notin {"start_game", "end_game"}
              /\ Has(m) /\ "strategy" \in DOMAIN TURN_STATE[m]) =>
                 /\ m \in DOMAIN TURN_STATE'
                 /\ DictGet(TURN_STATE'[m], "strategy", "")
                      = TURN_STATE[m]["strategy"]]_vars

\* the arguments of the call recorded in last
CallState == TURN_STATE["g1"]
CallTurn == DictGet(CallState, "turn", 1)
CallCounts == CallState["counts"]
CallProvincesLeft == DictGet(last.game.stock, "province", 0)
CallScoreGap == score_status(last.game, Seat)[1] - score_status(last.game, Seat)[2]

\* C12: choose_buy_action_for_strategy called with a key that is not
\* registered does not raise and returns the decision the baseline pipeline
\* returns for the same snapshot, coins, seat and record
C12_UnknownKeyFallsBack ==
    (last.op = "choose_buy_action_for_strategy" /\ last.id \notin StrategyKeys) =>
        /\ last.decision # ERROR
        /\ last.decision
             = strategy_choose_buy_action(last.game, last.coins, Seat, CallState)

\* C13: whatever the record of the match, a /play request whose snapshot has
\* an empty players list and an empty supply is answered END_TURN and leaves
\* the counts of the match as they were
C13_EmptySnapshotEndsTurn ==
    \A m \in MatchIds :
        \A state \in {_get_state(TURN_STATE, m)} :
            \A out \in {play(state, Snapshot(<<>>, EmptyDict))} :
                /\ out.decision = END_TURN
                /\ out.state["counts"] = state["counts"]

\* C14: the baseline pipeline never raises: every call returns END_TURN or
\* a BUY decision
C14_BaselineNeverRaises ==
    last.op = "choose_buy_action" =>
        (last.decision = END_TURN \/ IsBuy(last.decision))

\* C15: the baseline pipeline returns the result of the first step, in
\* declared order, that does not decline, and END_TURN when every step
\* declines
C15_FirstStepElseEndTurn ==
    last.op = "choose_buy_action" =>
        last.decision
          = (LET d == FirstProposal(PipelineSteps(last.game, last.coins, Seat, CallState))
             IN  IF d # None THEN d ELSE END_TURN)

\* C16: the baseline pipeline returns BUY copper only when gardens_plan is
\* set and spare buys exist (extra_buys > 0 or buys_left > 1)
C16_CopperOnlyWithSpareBuys ==
    (last.op = "choose_buy_action" /\ last.decision = Buy("copper")) =>
        /\ DictGet(CallState, "gardens_plan", FALSE)
        /\ \/ DictGet(CallState, "extra_buys", 0) > 0
           \/ DictGet(CallState, "buys_left", 1) > 1

\* C17: a decision returned by a registered pipeline is END_TURN or BUY c
\* with c in stock and the cost-table cost of c at most the coins supplied
C17_RegisteredPipelinesBuyLegally ==
    (/\ last.op = "choose_buy_action_for_strategy" /\ last.id \in StrategyKeys
     /\ last.decision # ERROR) =>
        \/ last.decision = END_TURN
        \/ /\ IsBuy(last.decision)
           /\ in_stock(last.game, CardOf(last.decision))
           /\ CardOf(last.decision) \in DOMAIN COSTS
           /\ COSTS[CardOf(last.decision)] <= last.coins

C19_GateOpensOnAnyCondition ==
    last.op = "early_province_ok" =>
        LET any == \/ CallProvincesLeft <= EARLY_PROVINCE_STOCK
                   \/ engine_ready(CallCounts)
                   \/ CallTurn >= MIN_GREEN_TURN
                   \/ CallScoreGap <= -BEHIND_DUCHY_DEFICIT
        IN  /\ any => last.decision = <<TRUE>>
            /\ (~any /\ CallTurn < RUSH_TURN) => last.decision = <<FALSE>>

\* the categories of action cards in the order of the pickers, and the hands
\* in which a category has a card to play: a trasher is played only with a
\* junk card (curse, estate or copper) in hand, Moneylender only with a
\* copper
CategoryCards ==
    << {"chapel", "moneylender", "remake", "remodel"},
       {"village", "market", "laboratory", "festival", "distantshore", "port",
        "cellar", "farmingvillage", "magpie", "poacher"},
       {"witch", "militia", "bandit", "bureaucrat"},
       {"councilroom", "smithy", "library", "adventurer"},
       {"woodcutter", "chancellor"},
       {"mine", "feast", "workshop"} >>

HasJunk(q) ==
    DictGet(q, "curse", 0) > 0 \/ DictGet(q, "estate", 0) > 0
        \/ DictGet(q, "copper", 0) > 0

Playable(k, q) ==
    IF k = 1
    THEN /\ HasJunk(q)
         /\ \/ DictGet(q, "chapel", 0) > 0
            \/ DictGet(q, "moneylender", 0) > 0 /\ DictGet(q, "copper", 0) > 0
            \/ DictGet(q, "remake", 0) > 0
            \/ DictGet(q, "remodel", 0) > 0
    ELSE \E c \in CategoryCards[k] : DictGet(q, c, 0) > 0

CallHand == last.game.players[Seat + 1].hand.quantities

\* C20: the choose_action of app/strategy/actions.py, called with
\* actions_left >= 1, proposes a card of a category only when the category
\* has a card to play and no earlier category (trashing, non-terminal
\* engine, attack, terminal draw, terminal payload, economy) has one; with
\* chapel and a junk card in hand it returns ACTION chapel whatever else the
\* hand holds
C20_PickersInFixedOrder ==
    last.op = "choose_action" =>
        /\ (DictGet(CallHand, "chapel", 0) > 0 /\ HasJunk(CallHand)) =>
               last.decision = Action("chapel")
        /\ last.decision # None =>
               \E k \in 1..6 :
                   /\ CardOf(last.decision) \in CategoryCards[k]
                   /\ Playable(k, CallHand)
                   /\ \A j \in 1..(k - 1) : ~Playable(j, CallHand)

\* chapel was played from a hand that also holds an attack, a payload
\* terminal and an economy card
C20_Witness ==
    /\ last.op = "choose_action" /\ last.decision = Action("chapel")
    /\ DictGet(CallHand, "militia", 0) > 0 /\ DictGet(CallHand, "workshop", 0) > 0

\* C21: whenever choose_action of app/strategy/actions.py returns ACTION c,
\* the record it was given afterwards differs from the record before only in
\* actions_left, which is the old value - 1 + ACTION_PLUS_ACTIONS[c], in
\* action_coins, which is the old value + ACTION_COIN_BONUS[c], and in
\* extra_buys, which is the old value + ACTION_BUY_BONUS[c], an absent table
\* entry counting as 0; market played with one action left leaves at least
\* one action and at least one coin
C21_ActionAppliesBonuses ==
    [][(last'.op = "choose_action" /\ last'.decision # None)
        => LET c == last'.decision[2]
               s == TURN_STATE["g1"]
               t == TURN_STATE'["g1"]
           IN  /\ last'.decision[1] = "ACTION"
               /\ DOMAIN t = DOMAIN s
               /\ \A k \in DOMAIN s \ {"actions_left", "action_coins", "extra_buys"} :
                      t[k] = s[k]
               /\ t["actions_left"] = s["actions_left"] - 1
                                          + DictGet(ACTION_PLUS_ACTIONS, c, 0)
               /\ t["action_coins"] = s["action_coins"]
                                          + DictGet(ACTION_COIN_BONUS, c, 0)
               /\ t["extra_buys"] = s["extra_buys"] + DictGet(ACTION_BUY_BONUS, c, 0)
               /\ (c = "market" /\ s["actions_left"] = 1)
                      => (t["actions_left"] >= 1 /\ t["action_coins"] >= 1)]_vars

\* market has been played from a record with one action left, no action
\* coins and no extra buys
C21_Witness ==
    /\ last.op = "choose_action"
    /\ last.decision = Action("market")
    /\ TURN_STATE["g1"]["actions_left"] = 1
    /\ TURN_STATE["g1"]["action_coins"] = 1
    /\ TURN_STATE["g1"]["extra_buys"] = 1

CallArgument == last.game

Priority(c) == DictGet(CARD_PRIORITY, c, 0)

ReceiveCalls == {"choose_card_to_receive_in_discard", "choose_card_to_receive_in_deck"}

HandCalls == {"discard_card_from_hand", "trash_card_from_hand"}

\* C22: for every non-empty candidate list the card-reception choice is a
\* candidate of the highest priority, a card without a table entry having
\* priority 0, and the alphabetically smallest of the candidates of that
\* priority; every reordering of the candidates gives the same choice
C22_BestFromHighestPriority ==
    (last.op \in ReceiveCalls /\ CallArgument # <<>>)
        => /\ last.decision # ERROR
           /\ LET c == last.decision[1]
                  options == CallArgument
              IN  /\ c \in Elements(options)
                  /\ \A d \in Elements(options) :
                        /\ Priority(d) <= Priority(c)
                        /\ Priority(d) = Priority(c) => NameRank(c) <= NameRank(d)
                  /\ \A p \in Permutations(1..Len(options)) :
                        _best_from([i \in 1..Len(options) |-> options[p[i]]])
                            = last.decision

\* three candidates without a table entry, the alphabetically smallest last
C22_Witness ==
    /\ last.op = "choose_card_to_receive_in_deck"
    /\ CallArgument = <<"witch", "militia", "curse">>
    /\ last.decision = <<"curse">>

Bucket(c) == IF c \in {"curse", "estate"} THEN 0 ELSE IF c = "copper" THEN 1 ELSE 2

\* C23: for every non-empty hand the forced discard or trash choice is a card
\* of the hand: a curse or estate if the hand has one, else copper if the
\* hand has it, else another card; and no card of the hand in the same
\* bucket has a lower priority
C23_WorstInHandBuckets ==
    (last.op \in HandCalls /\ CallArgument # <<>>)
        => /\ last.decision # ERROR
           /\ LET c == last.decision[1]
                  hand == CallArgument
              IN  /\ c \in Elements(hand)
                  /\ \A d \in Elements(hand) :
                        /\ Bucket(c) <= Bucket(d)
                        /\ Bucket(c) = Bucket(d) => Priority(c) <= Priority(d)

\* the estate is chosen although the copper has the lower priority
C23_Witness ==
    /\ last.op = "trash_card_from_hand"
    /\ CallArgument = <<"gold", "copper", "estate">>
    /\ last.decision = <<"estate">>

\* C24: with an empty hand the forced discard and forced trash handlers, and
\* worst_in_hand of app/strategy/utils.py, return the name of the lowest
\* treasure and do not raise
C24_EmptyHandSafeDefault ==
    ((last.op \in HandCalls \/ last.op = "worst_in_hand") /\ CallArgument = <<>>)
        => last.decision = <<"copper">>

\* C25: terminal_capacity of app/strategy/utils.py is 1 plus the weighted
\* number of owned +actions producers minus the number of owned terminals;
\* it is 2 for {village: 1, smithy: 1} and 1 for the empty map
C25_TerminalCapacityHasBase ==
    last.op = "terminal_capacity"
        => LET counts == CallArgument
               c(k) == DictGet(counts, k, 0)
           IN  last.decision[1] =
                   1 + 2 * c("village") + 2 * c("port") + 2 * c("festival")
                     + c("market") + c("laboratory")
                     - c("smithy") - c("moneylender") - c("woodcutter")

\* C26: the seat is the first player whose name holds the team name; else
\* the only player with a hand; else 1 with two or more players, 0 with one
\* player, and none with no player
C26_FindMeOrNotFound ==
    last.op = "_find_me"
        => LET players == CallArgument
               n == Len(players)
               named == {i \in 1..n : HasTeamName(players[i].name)}
               with_hand == {i \in 1..n : players[i].hand.present}
           IN  last.decision =
                   IF named # {}
                   THEN <<(CHOOSE i \in named : \A j \in named : i <= j) - 1>>
                   ELSE IF Cardinality(with_hand) = 1
                   THEN <<(CHOOSE i \in with_hand : TRUE) - 1>>
                   ELSE IF n >= 2 THEN <<1>>
                   ELSE IF n = 1 THEN <<0>>
                   ELSE None

\* C27: in a decision request that reaches the BUY phase with a buy left
\* and with an in-stock card of the cost table costing no more than the
\* coins, the answer is that of the buy selector; in the opening turns, with
\* 2 coins, chapel in stock and no chapel owned, it is BUY chapel
C27_AffordableConsultsSelector ==
    \A game \in FuzzSnapshots :
        game.players # <<>> =>
            LET state == _get_state(TURN_STATE, "g1")
                me_idx == _find_me(game)
                out == play(state, game)
                affordable == {c \in DOMAIN COSTS :
                                   _in_stock(game, c) /\ COSTS[c] <= out.coins}
            IN  (LeavesAction(out.decision) /\ out.buys > 0 /\ affordable # {})
                    => /\ out.decision =
                              choose_buy_action(game, out.coins, me_idx,
                                                PlanGardens(state, game, me_idx))
                       /\ (/\ DictGet(state, "turn", 1) <= OPENING_TURN_LIMIT
                           /\ out.coins = 2
                           /\ _in_stock(game, "chapel")
                           /\ DictGet(state["counts"], "chapel", 0) = 0)
                              => out.decision = Buy("chapel")

\* C28: choose_action of app/routers/game.py returns chapel, moneylender,
\* remodel or remake only when the hand holds a curse, an estate or at least
\* MIN_COPPER_TRASH coppers
C28_TrashersNeedJunk ==
    (last.op = "game.choose_action"
        /\ last.decision \in {Action(c) : c \in {"chapel", "moneylender",
                                                 "remodel", "remake"}})
        => \/ DictGet(CallHand, "curse", 0) > 0
           \/ DictGet(CallHand, "estate", 0) > 0
           \/ DictGet(CallHand, "copper", 0) >= MIN_COPPER_TRASH

\* C29: with the store of app/strategy/state.py, the record a turn starts
\* with after reset_for_new_turn, which the first choose_action call of the
\* turn reads, has actions_left = 1, phase = ACTION, action_coins = 0,
\* extra_buys = 0 and buys_left = 1, whatever was played the turn before
C29_TurnStartsWithOneAction ==
    last.op = "reset_for_new_turn"
        => LET st == TURN_STATE[last.id]
           IN  /\ DictGet(st, "actions_left", 1) = 1
               /\ st["phase"] = "ACTION"
               /\ st["action_coins"] = 0
               /\ st["extra_buys"] = 0
               /\ st["buys_left"] = 1

\* C30: the decision request that decides gardens_plan sets it only if, in
\* its snapshot, gardens is in stock, the agent trails the best opponent by
\* at least BEHIND_DUCHY_DEFICIT and market or festival is in stock; it
\* leaves it false when the agent is not trailing
C30_PivotOnlyWhenTrailing ==
    \A game \in FuzzSnapshots :
        game.players # <<>> =>
            LET state == _get_state(TURN_STATE, "g1")
                me_idx == _find_me(game)
                out == play(state, game)
                gap == _score_gap(game, me_idx)
            IN  ("gardens_plan" \notin DOMAIN state /\ out.decision # ERROR)
                    => /\ out.state["gardens_plan"]
                              => /\ _in_stock(game, "gardens")
                                 /\ gap <= -BEHIND_DUCHY_DEFICIT
                                 /\ \/ _in_stock(game, "market")
                                    \/ _in_stock(game, "festival")
                       /\ gap >= 0 => ~out.state["gardens_plan"]

====
